---------------------------- MODULE Spec2Model ----------------------------
(***************************************************************************)
(* A model of the position risk engine of defi-simulator (useAaveData):    *)
(* the derived-metrics pass updateDerivedHealthFactorData, the liquidation *)
(* scenario solver getCalculatedLiquidationScenario with its eligibility   *)
(* filter, and the swap fee / slippage model.                              *)
(*                                                                         *)
(* Numbers.  A number is a pair <<n, d>>: the fraction n/d in lowest terms *)
(* with d > 0.  <<1, 0>> is Infinity and <<0, 0>> is null/NaN.  BigNumber  *)
(* addition, subtraction and multiplication are exact; BigNumber division  *)
(* rounds half-up to DECIMAL_PLACES decimals; BigNumber.toNumber() rounds  *)
(* to SIGNIFICANT_DIGITS significant digits, which is what makes a stored  *)
(* field differ from the BigNumber it was written from.  Plain JavaScript  *)
(* arithmetic on numbers is modelled exactly (its rounding error is below  *)
(* every rounding step the code applies itself).                           *)
(***************************************************************************)
EXTENDS Integers, Sequences, FiniteSets, TLC

\* BigNumber's DECIMAL_PLACES (20 in the library), the precision of dividedBy.
DECIMAL_PLACES == 3
\* The precision of a JavaScript number (15 to 17 digits for a double).
SIGNIFICANT_DIGITS == 5

---------------------------------------------------------------------------
\* Exact arithmetic on fractions.

Abs(n) == IF n < 0 THEN 0 - n ELSE n

RECURSIVE GCD(_, _)
GCD(a, b) == IF b = 0 THEN a ELSE GCD(b, a % b)

RECURSIVE Pow10(_)
Pow10(k) == IF k <= 0 THEN 1 ELSE 10 * Pow10(k - 1)

Infinity == <<1, 0>>
Null == <<0, 0>>
Zero == <<0, 1>>
One == <<1, 1>>

IsFinite(a) == a[2] # 0

\* n / d with the common divisor g of n and d taken out
Reduced(n, d, g) == <<n \div g, d \div g>>

Norm(n, d) == Reduced(n, d, GCD(Abs(n), d))

Num(n) == <<n, 1>>
\* n hundredths: a price in cents, a percentage
Cents(n) == Norm(n, 100)
\* n basis points
Bps(n) == Norm(n, 10000)

Neg(a) == <<0 - a[1], a[2]>>
\* |a| and the sign of a given to r
Magnitude(a) == <<Abs(a[1]), a[2]>>
WithSignOf(a, r) == IF a[1] < 0 THEN Neg(r) ELSE r

\* a + b, g the common divisor of the denominators
AddOver(a, b, g) ==
    Norm(a[1] * (b[2] \div g) + b[1] * (a[2] \div g), (a[2] \div g) * b[2])

Add(a, b) == AddOver(a, b, GCD(a[2], b[2]))

Sub(a, b) == Add(a, Neg(b))

\* a * b, g1 and g2 the common divisors across the fraction bars
MulOver(a, b, g1, g2) ==
    <<(a[1] \div g1) * (b[1] \div g2), (a[2] \div g2) * (b[2] \div g1)>>

Mul(a, b) ==
    IF a[1] = 0 \/ b[1] = 0 THEN Zero
    ELSE MulOver(a, b, GCD(Abs(a[1]), b[2]), GCD(Abs(b[1]), a[2]))

\* 1 / b, b # 0
Reciprocal(b) == IF b[1] < 0 THEN <<0 - b[2], 0 - b[1]>> ELSE <<b[2], b[1]>>

\* the exact quotient, b # 0
Quot(a, b) == Mul(a, Reciprocal(b))

LtOver(a, b, g) == a[1] * (b[2] \div g) < b[1] * (a[2] \div g)

Lt(a, b) == LtOver(a, b, GCD(a[2], b[2]))

Le(a, b) == a = b \/ Lt(a, b)
Gt(a, b) == Lt(b, a)
Ge(a, b) == Le(b, a)
Min(a, b) == IF Lt(b, a) THEN b ELSE a
Max(a, b) == IF Lt(a, b) THEN b ELSE a

\* 2 * (c * d + x) as <<quotient, remainder>> by d, without forming 2 * x
Twice(c, x, d) ==
    IF x >= d - x THEN <<2 * c + 1, x - (d - x)>> ELSE <<2 * c, x + x>>

\* (c * d + x) + r as <<quotient, remainder>> by d, for x < d and r < d
Plus(c, x, r, d) ==
    IF x >= d - r THEN <<c + 1, x - (d - r)>> ELSE <<c, x + r>>

\* the same on a <<quotient, remainder>> pair
TwiceOf(p, d) == Twice(p[1], p[2], d)
PlusOf(p, r, d) == Plus(p[1], p[2], r, d)

\* 10 * r as <<quotient, remainder>> by d, for r < d: 10 r = 2 (4 r + r)
Times10(r, d) == TwiceOf(PlusOf(TwiceOf(Twice(0, r, d), d), r, d), d)

\* The first k decimals of r / d (0 <= r < d) by long division, and the
\* remainder left after them; s is 10 * r as Times10 gives it.
RECURSIVE LongDiv(_, _, _, _)
LongDivNext(s, d, k, acc) == LongDiv(s[2], d, k - 1, acc * 10 + s[1])

LongDiv(r, d, k, acc) ==
    IF k = 0 THEN <<acc, r>> ELSE LongDivNext(Times10(r, d), d, k, acc)

\* the digits ld[1] with remainder ld[2] of a rounded half-up at k decimals
RoundedUp(a, k, ld) ==
    Norm(ld[1] + (IF ld[2] >= a[2] - ld[2] THEN 1 ELSE 0), Pow10(k))

\* a >= 0 rounded half-up to k decimals
RoundPlaces(a, k) ==
    RoundedUp(a, k, LongDiv(a[1] % a[2], a[2], k, a[1] \div a[2]))

\* rounding half away from zero to k decimals
RoundHalfUp(a, k) == WithSignOf(a, RoundPlaces(Magnitude(a), k))

\* Math.round((x + Number.EPSILON) * 100) / 100: x rounded to the cent
RoundCents(a) == RoundHalfUp(a, 2)

\* the number of digits of the integer part of a >= 1
RECURSIVE IntDigits(_)
IntDigits(n) == IF n < 10 THEN 1 ELSE 1 + IntDigits(n \div 10)

\* the number of zero decimals before the first significant one, 0 < a < 1
RECURSIVE LeadingZeros(_, _)
LeadingZeros(r, d) ==
    IF Times10(r, d)[1] > 0 THEN 0 ELSE 1 + LeadingZeros(r * 10, d)

\* the position of the first significant digit of a > 0: the number of
\* integer digits, or minus the number of leading zero decimals
Exponent(a) ==
    IF a[1] >= a[2] THEN IntDigits(a[1] \div a[2])
    ELSE 0 - LeadingZeros(a[1], a[2])

\* a >= 0 rounded half-up at p decimals, p < 0 rounding to tens, hundreds...
RoundAt(a, p) ==
    Mul(RoundPlaces(Mul(a, Norm(1, Pow10(0 - p))), IF p > 0 THEN p ELSE 0),
        Num(Pow10(0 - p)))

\* a >= 0 rounded to sig significant digits
RoundSignificant(a, sig) ==
    IF a[1] = 0 THEN Zero ELSE RoundAt(a, sig - Exponent(a))

\* BigNumber.dividedBy: the quotient rounded to DECIMAL_PLACES decimals
DividedBy(a, b) == RoundHalfUp(Quot(a, b), DECIMAL_PLACES)

\* BigNumber.toNumber: the nearest JavaScript number
ToNumber(a) ==
    IF ~IsFinite(a) THEN a
    ELSE WithSignOf(a, RoundSignificant(Magnitude(a), SIGNIFICANT_DIGITS))

\* BigNumber.isEqualTo: a NaN operand is equal to nothing
IsEqualTo(a, b) == a # Null /\ b # Null /\ a = b

---------------------------------------------------------------------------
\* Asset symbols are sequences of characters, so that the stablecoin test is
\* the substring test of the code.

WETH == <<"W", "E", "T", "H">>
cbBTC == <<"c", "b", "B", "T", "C">>
USDC == <<"U", "S", "D", "C">>
sDAI == <<"s", "D", "A", "I">>
DAI == <<"D", "A", "I">>
GHO == <<"G", "H", "O">>
LINK == <<"L", "I", "N", "K">>

\* String.prototype.toUpperCase, one character at a time
UpperChar(c) ==
    CASE c = "a" -> "A" [] c = "b" -> "B" [] c = "c" -> "C" [] c = "d" -> "D"
      [] c = "e" -> "E" [] c = "g" -> "G" [] c = "i" -> "I" [] c = "s" -> "S"
      [] c = "t" -> "T" [] c = "u" -> "U" [] c = "w" -> "W"
      [] OTHER -> c

toUpperCase(s) == [k \in 1..Len(s) |-> UpperChar(s[k])]

\* String.prototype.includes
includes(s, sub) ==
    \E k \in 0..(Len(s) - Len(sub)) :
        \A j \in 1..Len(sub) : s[k + j] = sub[j]

stablecoinSymbols ==
    << <<"D", "A", "I">>, <<"U", "S", "D", "C">>, <<"U", "S", "D", "T">>,
       <<"T", "U", "S", "D">>, <<"U", "S", "D", "P">>, <<"B", "U", "S", "D">>,
       <<"F", "R", "A", "X">>, <<"L", "U", "S", "D">>, <<"S", "U", "S", "D">>,
       <<"G", "U", "S", "D">>, <<"U", "S", "D", "D">>, <<"D", "U", "S", "D">>,
       <<"G", "H", "O">>, <<"U", "S", "D">>, <<"E", "U", "R">>,
       <<"M", "A", "I">>, <<"U", "S", "D", "E">>,
       <<"S", "U", "S", "D", "E">>, <<"E", "U", "S", "D", "E">>,
       <<"E", "U", "R", "T">>, <<"E", "U", "R", "S">>,
       <<"A", "G", "E", "U", "R">>, <<"P", "A", "R">> >>

isStablecoinAsset(asset) ==
    \E k \in 1..Len(stablecoinSymbols) :
        includes(toUpperCase(asset.symbol), stablecoinSymbols[k])

isActiveAsset(asset) == asset.isActive /\ ~asset.isPaused /\ ~asset.isFrozen
isBorrowableAsset(asset) == isActiveAsset(asset) /\ asset.borrowingEnabled
isSuppliableAsset(asset) == isActiveAsset(asset) /\ asset.usageAsCollateralEnabled

---------------------------------------------------------------------------
\* The derived-metrics pass.

\* `if (!existing.isEqualTo(updated)) field = updated.toNumber()`
WriteIfChanged(existing, updated) ==
    IF ~IsEqualTo(updated, existing) THEN ToNumber(updated) ELSE existing

\* IsEmode without the `!!asset.eModeCategoryId` guard
IsEmodeUnguarded(asset, userEmodeCategoryId) ==
    asset.eModeCategoryId = userEmodeCategoryId

\* `!!asset.eModeCategoryId && asset.eModeCategoryId === data.userEmodeCategoryId`
\* (category 0 stands for an absent category id as well: both are falsy)
IsEmode(asset, userEmodeCategoryId) ==
    asset.eModeCategoryId # 0 /\ asset.eModeCategoryId = userEmodeCategoryId

\* What one reserve item adds to the accumulators, given its balance in
\* market reference currency: nothing unless the user enables it as
\* collateral.
ReserveWeights(reserveItem, isEmode, updatedUnderlyingBalanceMarketReferenceCurrency) ==
    LET lt == IF isEmode THEN reserveItem.asset.eModeLiquidationThreshold
              ELSE reserveItem.asset.reserveLiquidationThreshold
        ltv == IF isEmode THEN reserveItem.asset.eModeLtv
               ELSE reserveItem.asset.baseLTVasCollateral
        counted == reserveItem.usageAsCollateralEnabledOnUser
    IN  [counted |-> counted,
         lt |-> lt,
         ltv |-> ltv,
         collateral |->
            IF counted THEN updatedUnderlyingBalanceMarketReferenceCurrency
            ELSE Zero,
         weightedReserves |->
            IF counted
            THEN Mul(DividedBy(Num(lt), Num(10000)),
                     updatedUnderlyingBalanceMarketReferenceCurrency)
            ELSE Zero,
         weightedLTV |->
            IF counted
            THEN Mul(DividedBy(Num(ltv), Num(10000)),
                     updatedUnderlyingBalanceMarketReferenceCurrency)
            ELSE Zero]

\* The reserve item as the pass leaves it, and what it adds.
ReserveWritten(reserveItem, userEmodeCategoryId, updatedMarketReferenceCurrency, updatedUnderlyingBalanceMarketReferenceCurrency) ==
    [item |->
        [reserveItem EXCEPT
            !.asset.priceInMarketReferenceCurrency =
                WriteIfChanged(@, updatedMarketReferenceCurrency),
            !.underlyingBalanceMarketReferenceCurrency =
                WriteIfChanged(@, updatedUnderlyingBalanceMarketReferenceCurrency),
            !.underlyingBalanceUSD =
                WriteIfChanged(@, Mul(reserveItem.underlyingBalance,
                                      reserveItem.asset.priceInUSD))],
     adds |-> ReserveWeights(reserveItem,
                             IsEmode(reserveItem.asset, userEmodeCategoryId),
                             updatedUnderlyingBalanceMarketReferenceCurrency)]

ReserveConverted(reserveItem, userEmodeCategoryId, updatedMarketReferenceCurrency) ==
    ReserveWritten(reserveItem, userEmodeCategoryId, updatedMarketReferenceCurrency,
                   Mul(updatedMarketReferenceCurrency, reserveItem.underlyingBalance))

\* The body of data.userReservesData.forEach for one reserve item.
ReservePass(reserveItem, userEmodeCategoryId, marketRefPrice) ==
    ReserveConverted(reserveItem, userEmodeCategoryId,
                     DividedBy(reserveItem.asset.priceInUSD, marketRefPrice))

\* updatedTotalBorrowsMarketReferenceCurrency computed from the price the
\* asset still carries instead of the one just computed
TotalBorrowsInReferenceCurrencyStale(borrowItem, updatedMarketReferenceCurrency) ==
    Mul(borrowItem.asset.priceInMarketReferenceCurrency, borrowItem.totalBorrows)

\* updatedTotalBorrowsMarketReferenceCurrency
TotalBorrowsInReferenceCurrency(borrowItem, updatedMarketReferenceCurrency) ==
    Mul(updatedMarketReferenceCurrency, borrowItem.totalBorrows)

\* The borrow item as the pass leaves it, and what it adds.
BorrowWritten(borrowItem, updatedMarketReferenceCurrency, updatedTotalBorrowsMarketReferenceCurrency) ==
    [item |->
        [borrowItem EXCEPT
            !.asset.priceInMarketReferenceCurrency =
                WriteIfChanged(@, updatedMarketReferenceCurrency),
            !.totalBorrowsMarketReferenceCurrency =
                WriteIfChanged(@, updatedTotalBorrowsMarketReferenceCurrency),
            !.totalBorrowsUSD =
                WriteIfChanged(@, Mul(borrowItem.totalBorrows,
                                      borrowItem.asset.priceInUSD))],
     borrows |-> updatedTotalBorrowsMarketReferenceCurrency]

BorrowConverted(borrowItem, updatedMarketReferenceCurrency) ==
    BorrowWritten(borrowItem, updatedMarketReferenceCurrency,
                  TotalBorrowsInReferenceCurrency(borrowItem,
                                                  updatedMarketReferenceCurrency))

\* The body of data.userBorrowsData.forEach for one borrow item.
BorrowPass(borrowItem, marketRefPrice) ==
    BorrowConverted(borrowItem,
                    DividedBy(borrowItem.asset.priceInUSD, marketRefPrice))

\* the sum of f[1] .. f[n]
RECURSIVE SumUpTo(_, _)
SumUpTo(f, n) == IF n = 0 THEN Zero ELSE Add(SumUpTo(f, n - 1), f[n])

\* UpdatedHealthFactor without the `else if (totalBorrowsETH.isEqualTo(0))` branch
UpdatedHealthFactorNoInfinity(updatedCollateral, totalBorrowsETH, updatedCurrentLiquidationThreshold) ==
    IF Gt(updatedCollateral, Zero) /\ Gt(totalBorrowsETH, Zero)
       /\ Gt(updatedCurrentLiquidationThreshold, Zero)
    THEN DividedBy(Mul(updatedCollateral, updatedCurrentLiquidationThreshold),
                   totalBorrowsETH)
    ELSE Zero

\* `// Update "healthFactor"`: the value of updatedHealthFactor
UpdatedHealthFactor(updatedCollateral, totalBorrowsETH, updatedCurrentLiquidationThreshold) ==
    IF Gt(updatedCollateral, Zero) /\ Gt(totalBorrowsETH, Zero)
       /\ Gt(updatedCurrentLiquidationThreshold, Zero)
    THEN DividedBy(Mul(updatedCollateral, updatedCurrentLiquidationThreshold),
                   totalBorrowsETH)
    ELSE IF totalBorrowsETH = Zero THEN Infinity
    ELSE Zero

\* `if (updatedAvailableBorrowsUSD.isLessThan(0)) updatedAvailableBorrowsUSD = new BigNumber(0)`
FlooredAtZero(a) == IF Lt(a, Zero) THEN Zero ELSE a

\* UpdatedAvailableBorrowsUSD without the `isLessThan(0)` floor
UpdatedAvailableBorrowsUSDNoFloor(updatedCollateral, updatedCurrentLoanToValue, totalBorrowsETH, marketRefPrice) ==
    Mul(Sub(Mul(updatedCollateral, updatedCurrentLoanToValue), totalBorrowsETH),
        marketRefPrice)

\* `// Update "availableBorrowsUSD"`: the value of updatedAvailableBorrowsUSD
UpdatedAvailableBorrowsUSD(updatedCollateral, updatedCurrentLoanToValue, totalBorrowsETH, marketRefPrice) ==
    FlooredAtZero(
        Mul(Sub(Mul(updatedCollateral, updatedCurrentLoanToValue), totalBorrowsETH),
            marketRefPrice))

\* `// Updated "currentLiquidationThreshold"`, `// Update "currentLoanToValue"`
WeightedAverage(weighted, updatedCollateral) ==
    IF Gt(weighted, Zero) /\ Gt(updatedCollateral, Zero)
    THEN DividedBy(weighted, updatedCollateral)
    ELSE Zero

\* The local variables of updateDerivedHealthFactorData when it returns,
\* given the line items and the accumulators and ratios.
LocalsWith(rp, bp, marketRefPrice, updatedCollateral, totalBorrowsETH, updatedCurrentLiquidationThreshold, updatedCurrentLoanToValue) ==
    [reserves |-> [k \in 1..Len(rp) |-> rp[k].item],
     borrows |-> [k \in 1..Len(bp) |-> bp[k].item],
     weights |-> [k \in 1..Len(rp) |->
                    [counted |-> rp[k].adds.counted, lt |-> rp[k].adds.lt,
                     ltv |-> rp[k].adds.ltv]],
     updatedCollateral |-> updatedCollateral,
     totalBorrowsETH |-> totalBorrowsETH,
     updatedCurrentLiquidationThreshold |-> updatedCurrentLiquidationThreshold,
     updatedCurrentLoanToValue |-> updatedCurrentLoanToValue,
     updatedHealthFactor |->
        UpdatedHealthFactor(updatedCollateral, totalBorrowsETH,
                            updatedCurrentLiquidationThreshold),
     updatedAvailableBorrowsUSD |->
        UpdatedAvailableBorrowsUSD(updatedCollateral, updatedCurrentLoanToValue,
                                   totalBorrowsETH, marketRefPrice),
     updatedTotalBorrowsUSD |-> Mul(totalBorrowsETH, marketRefPrice)]

\* the accumulators after both forEach loops
LocalsOver(rp, bp, marketRefPrice, updatedCollateral, weightedReservesETH, weightedLTVETH, totalBorrowsETH) ==
    LocalsWith(rp, bp, marketRefPrice, updatedCollateral, totalBorrowsETH,
               WeightedAverage(weightedReservesETH, updatedCollateral),
               WeightedAverage(weightedLTVETH, updatedCollateral))

LocalsAfter(rp, bp, marketRefPrice) ==
    LocalsOver(rp, bp, marketRefPrice,
               SumUpTo([k \in 1..Len(rp) |-> rp[k].adds.collateral], Len(rp)),
               SumUpTo([k \in 1..Len(rp) |-> rp[k].adds.weightedReserves], Len(rp)),
               SumUpTo([k \in 1..Len(rp) |-> rp[k].adds.weightedLTV], Len(rp)),
               SumUpTo([k \in 1..Len(bp) |-> bp[k].borrows], Len(bp)))

\* The local variables of updateDerivedHealthFactorData when it returns.
UpdateLocals(data, marketRefPrice) ==
    LocalsAfter([k \in 1..Len(data.userReservesData) |->
                    ReservePass(data.userReservesData[k],
                                data.userEmodeCategoryId, marketRefPrice)],
                [k \in 1..Len(data.userBorrowsData) |->
                    BorrowPass(data.userBorrowsData[k], marketRefPrice)],
                marketRefPrice)

\* The position as updateDerivedHealthFactorData leaves it, given the local
\* variables l of the pass: every derived field is written where it changed.
WriteDerived(data, l) ==
    [data EXCEPT
        !.userReservesData = l.reserves,
        !.userBorrowsData = l.borrows,
        !.totalCollateralMarketReferenceCurrency =
            WriteIfChanged(@, l.updatedCollateral),
        !.totalBorrowsMarketReferenceCurrency =
            WriteIfChanged(@, l.totalBorrowsETH),
        !.currentLiquidationThreshold =
            WriteIfChanged(@, l.updatedCurrentLiquidationThreshold),
        !.currentLoanToValue =
            WriteIfChanged(@, l.updatedCurrentLoanToValue),
        !.healthFactor = WriteIfChanged(@, l.updatedHealthFactor),
        !.availableBorrowsUSD =
            WriteIfChanged(@, l.updatedAvailableBorrowsUSD),
        !.totalBorrowsUSD = WriteIfChanged(@, l.updatedTotalBorrowsUSD)]

\* updateDerivedHealthFactorData(data, currentMarketReferenceCurrencyPriceInUSD)
updateDerivedHealthFactorData(data, marketRefPrice) ==
    WriteDerived(data, UpdateLocals(data, marketRefPrice))

---------------------------------------------------------------------------
\* The asset catalog and the provider snapshots.

Asset(symbol, price, ltv, lt, eModeId, eModeLtv, eModeLt, collateral, borrowing) ==
    [symbol |-> symbol,
     priceInUSD |-> price,
     priceInMarketReferenceCurrency |-> price,
     baseLTVasCollateral |-> ltv,
     reserveLiquidationThreshold |-> lt,
     eModeCategoryId |-> eModeId,
     eModeLtv |-> eModeLtv,
     eModeLiquidationThreshold |-> eModeLt,
     usageAsCollateralEnabled |-> collateral,
     borrowingEnabled |-> borrowing,
     isActive |-> TRUE,
     isFrozen |-> FALSE,
     isPaused |-> FALSE,
     isNewlyAddedBySimUser |-> FALSE]

AssetWETH == Asset(WETH, Num(2500), 8000, 8300, 1, 9000, 9300, TRUE, TRUE)
AssetCbBTC == Asset(cbBTC, Num(60000), 7500, 7800, 0, 0, 0, TRUE, TRUE)
AssetUSDC == Asset(USDC, Num(1), 7500, 7800, 2, 9000, 9500, TRUE, TRUE)
AssetSDAI == Asset(sDAI, Num(1), 0, 0, 0, 0, 0, TRUE, FALSE)
AssetDAI == Asset(DAI, Num(1), 7500, 7800, 2, 9000, 9500, TRUE, TRUE)
AssetGHO == Asset(GHO, Num(1), 0, 0, 0, 0, 0, FALSE, TRUE)

\* `availableAssets` as the provider delivers it: LINK is not listed
Catalog == <<AssetWETH, AssetCbBTC, AssetUSDC, AssetDAI, AssetSDAI, AssetGHO>>

ReserveItem(asset, balance, enabled) ==
    [asset |-> asset,
     underlyingBalance |-> balance,
     underlyingBalanceUSD |-> Zero,
     underlyingBalanceMarketReferenceCurrency |-> Zero,
     usageAsCollateralEnabledOnUser |-> enabled]

BorrowItem(asset, quantity) ==
    [asset |-> asset,
     totalBorrows |-> quantity,
     totalBorrowsUSD |-> Zero,
     totalBorrowsMarketReferenceCurrency |-> Zero]

\* a position whose derived fields have not been computed yet
Position(reserves, borrows, userEmodeCategoryId) ==
    [healthFactor |-> Zero,
     totalBorrowsUSD |-> Zero,
     availableBorrowsUSD |-> Zero,
     totalCollateralMarketReferenceCurrency |-> Zero,
     totalBorrowsMarketReferenceCurrency |-> Zero,
     currentLiquidationThreshold |-> Zero,
     currentLoanToValue |-> Zero,
     userReservesData |-> reserves,
     userBorrowsData |-> borrows,
     userEmodeCategoryId |-> userEmodeCategoryId]

---------------------------------------------------------------------------
\* The store: the working position of the current address and market.

VARIABLES
    workingData,                          \* addressData[address][market].workingData
    marketReferenceCurrencyPriceInUSD,    \* ...[market].marketReferenceCurrencyPriceInUSD
    passes,      \* derived-metrics passes run since a line item was last edited (0, 1, 2)
    locals,      \* the local variables of the last derived-metrics pass
    solver,      \* the activation record of getCalculatedLiquidationScenario
    fee,         \* the last call of the fee model and what it returned
    availableAssets,   \* ...[market].availableAssets
    call,        \* the last call of a handler of the hook: its name, its
                 \* arguments, whether it threw, what it returned
    operations,  \* the number of simulator calls made so far
    fetchedData,       \* ...[market].fetchedData, the baseline
    isRefreshActive,   \* the store's isRefreshActive
    inFlight     \* the getAaveData calls of the refresh effect not yet resolved

vars == <<workingData, marketReferenceCurrencyPriceInUSD, passes, locals, solver, fee,
          availableAssets, call, operations, fetchedData, isRefreshActive, inFlight>>

NoLocals == [ran |-> FALSE]

LocalsOf(l) ==
        [ran |-> TRUE,
         weights |-> l.weights,
         updatedCollateral |-> l.updatedCollateral,
         totalBorrowsETH |-> l.totalBorrowsETH,
         updatedCurrentLiquidationThreshold |-> l.updatedCurrentLiquidationThreshold,
         updatedCurrentLoanToValue |-> l.updatedCurrentLoanToValue]

\* Array.prototype.findIndex on the symbol, 0 when there is none
FindIndex(items, symbol) ==
    IF \E k \in 1..Len(items) : items[k].asset.symbol = symbol
    THEN CHOOSE k \in 1..Len(items) :
            /\ items[k].asset.symbol = symbol
            /\ \A j \in 1..(k - 1) : items[j].asset.symbol # symbol
    ELSE 0

\* The snapshots the data provider delivers for the modelled addresses.
Snapshots ==
    { Position(<<ReserveItem(AssetCbBTC, Num(1), TRUE)>>,
               <<BorrowItem(AssetUSDC, Num(40000))>>, 0),
      Position(<<ReserveItem(AssetWETH, Num(4), TRUE),
                 ReserveItem(AssetCbBTC, Num(1), TRUE)>>,
               <<BorrowItem(AssetUSDC, Num(40000))>>, 1),
      Position(<<ReserveItem(AssetWETH, Num(4), TRUE),
                 ReserveItem(AssetSDAI, Num(5000), FALSE)>>,
               <<BorrowItem(AssetUSDC, Num(5000))>>, 2),
      Position(<< >>, << >>, 0) }

MarketRefPrices == {Num(1), Num(2)}

\* The inputs a user gives the setters: a line item with the quantity typed
\* for it, an asset with the what-if price typed for it.
ReserveQuantityInputs == {<<WETH, Zero>>, <<cbBTC, Zero>>, <<USDC, Num(10)>>}
BorrowQuantityInputs == {<<USDC, Zero>>, <<USDC, Num(60000)>>, <<WETH, Num(1)>>}
PriceInputs == {<<WETH, Cents(312550)>>, <<USDC, Cents(98)>>}
CollateralInputs == {WETH, sDAI}

IdleSolver == [pc |-> "idle"]
NoFee == [op |-> "none"]
NoCall == [op |-> "none", args |-> << >>, threw |-> FALSE, result |-> << >>]

\* the handler `op` is called with `args` and returns normally
Called(op, args) ==
    call' = [op |-> op, args |-> args, threw |-> FALSE, result |-> << >>]

\* A provider snapshot arrives either with its derived fields computed or
\* without (a position assembled by a caller before its first pass).
Init ==
    /\ marketReferenceCurrencyPriceInUSD \in MarketRefPrices
    /\ \E snap \in Snapshots :
          workingData \in
            {snap, updateDerivedHealthFactorData(snap, marketReferenceCurrencyPriceInUSD)}
    /\ passes = 0
    /\ locals = NoLocals
    /\ solver = IdleSolver
    /\ fee = NoFee
    /\ availableAssets = Catalog
    /\ call = NoCall
    /\ operations = 0
    /\ fetchedData = workingData
    /\ isRefreshActive = TRUE
    /\ inFlight = 0

\* the working position and the trace of the pass, l its local variables
StorePass(data, l) ==
    /\ workingData' = WriteDerived(data, l)
    /\ locals' = LocalsOf(l)

\* updateAllDerivedHealthFactorData, run on the working position `data`
RunUpdateAll(data) ==
    /\ StorePass(data, UpdateLocals(data, marketReferenceCurrencyPriceInUSD))
    /\ UNCHANGED <<marketReferenceCurrencyPriceInUSD, solver, fee, fetchedData, isRefreshActive, inFlight, availableAssets,
                   operations>>

updateAllDerivedHealthFactorData ==
    /\ RunUpdateAll(workingData)
    /\ Called("updateAllDerivedHealthFactorData", << >>)
    /\ passes' = IF passes >= 1 THEN 2 ELSE 1

setReserveAssetQuantity(symbol, quantity) ==
    LET k == FindIndex(workingData.userReservesData, symbol)
    IN  IF k # 0 /\ workingData.userReservesData[k].underlyingBalance = quantity
        THEN /\ Called("setReserveAssetQuantity", [symbol |-> symbol, quantity |-> quantity])
             /\ UNCHANGED <<workingData, marketReferenceCurrencyPriceInUSD, passes,
                            locals, solver, fee, fetchedData, isRefreshActive, inFlight, availableAssets, operations>>
        ELSE /\ Called("setReserveAssetQuantity",
                       [symbol |-> symbol, quantity |-> quantity])
             /\ RunUpdateAll(
                  IF k = 0 THEN workingData
                  ELSE [workingData EXCEPT
                           !.userReservesData[k].underlyingBalance = quantity])
             /\ passes' = IF k = 0 /\ passes >= 1 THEN 2 ELSE 1

setBorrowedAssetQuantity(symbol, quantity) ==
    LET k == FindIndex(workingData.userBorrowsData, symbol)
    IN  IF k # 0 /\ workingData.userBorrowsData[k].totalBorrows = quantity
        THEN /\ Called("setBorrowedAssetQuantity", [symbol |-> symbol, quantity |-> quantity])
             /\ UNCHANGED <<workingData, marketReferenceCurrencyPriceInUSD, passes,
                            locals, solver, fee, fetchedData, isRefreshActive, inFlight, availableAssets, operations>>
        ELSE /\ Called("setBorrowedAssetQuantity",
                       [symbol |-> symbol, quantity |-> quantity])
             /\ RunUpdateAll(
                  IF k = 0 THEN workingData
                  ELSE [workingData EXCEPT
                           !.userBorrowsData[k].totalBorrows = quantity])
             /\ passes' = IF k = 0 /\ passes >= 1 THEN 2 ELSE 1

\* addBorrowAsset and addReserveAsset put the catalog's asset object itself
\* into the line item they make, after marking it: until a JSON copy or a
\* refresh separates them, the marked line items of a symbol and the
\* catalog's asset of that symbol are one object.
HoldsCatalogAsset(item, symbol) ==
    item.asset.symbol = symbol /\ item.asset.isNewlyAddedBySimUser

\* the first marked line item of the symbol, 0 for none
FindHolder(items, symbol) ==
    IF \E k \in 1..Len(items) : HoldsCatalogAsset(items[k], symbol)
    THEN CHOOSE k \in 1..Len(items) :
            /\ HoldsCatalogAsset(items[k], symbol)
            /\ \A j \in 1..(k - 1) : ~HoldsCatalogAsset(items[j], symbol)
    ELSE 0

\* the catalog's asset as the handler leaves it: what was written through a
\* line item that holds it was written to it
CatalogAsset(data, asset, r, b) ==
    IF r # 0 THEN data.userReservesData[r].asset
    ELSE IF b # 0 THEN data.userBorrowsData[b].asset
    ELSE asset

\* the catalog after a handler that left the working position `data`
CatalogAfter(data, assets) ==
    [k \in 1..Len(assets) |->
        CatalogAsset(data, assets[k],
                     FindHolder(data.userReservesData, assets[k].symbol),
                     FindHolder(data.userBorrowsData, assets[k].symbol))]

\* `asset.priceInUSD.set(price)` on that object, seen through the line items
PricedThroughCatalog(items, symbol, price) ==
    [k \in 1..Len(items) |->
        IF HoldsCatalogAsset(items[k], symbol)
        THEN [items[k] EXCEPT !.asset.priceInUSD = price]
        ELSE items[k]]

\* the line item k that `find` returned, if any, holds the catalog's object
FoundHoldsCatalogAsset(items, k, symbol) ==
    IF k = 0 THEN FALSE ELSE HoldsCatalogAsset(items[k], symbol)

\* the two `priceInUSD.set(price)` of setAssetPriceInUSD
PriceWritten(data, r, b, price) ==
    LET d1 == IF r # 0 THEN [data EXCEPT !.userReservesData[r].asset.priceInUSD = price]
              ELSE data
    IN  IF b # 0 THEN [d1 EXCEPT !.userBorrowsData[b].asset.priceInUSD = price]
        ELSE d1

\* the working position with the USD price of `symbol` set in both lists
WithAssetPriceInUSD(data, symbol, price) ==
    LET r == FindIndex(data.userReservesData, symbol)
        b == FindIndex(data.userBorrowsData, symbol)
    IN  IF \/ FoundHoldsCatalogAsset(data.userReservesData, r, symbol)
           \/ FoundHoldsCatalogAsset(data.userBorrowsData, b, symbol)
        THEN [PriceWritten(data, r, b, price) EXCEPT
                 !.userReservesData = PricedThroughCatalog(@, symbol, price),
                 !.userBorrowsData = PricedThroughCatalog(@, symbol, price)]
        ELSE PriceWritten(data, r, b, price)

setAssetPriceInUSD(symbol, price) ==
    LET edited == WithAssetPriceInUSD(workingData, symbol, price)
    IN  /\ RunUpdateAll(edited)
        /\ Called("setAssetPriceInUSD", [symbol |-> symbol, price |-> price])
        /\ passes' = IF edited = workingData /\ passes >= 1 THEN 2 ELSE 1

setUseReserveAssetAsCollateral(symbol, value) ==
    LET k == FindIndex(workingData.userReservesData, symbol)
        edited == IF k # 0
                  THEN [workingData EXCEPT
                           !.userReservesData[k].usageAsCollateralEnabledOnUser = value]
                  ELSE workingData
    IN  /\ RunUpdateAll(edited)
        /\ Called("setUseReserveAssetAsCollateral", [symbol |-> symbol, value |-> value])
        /\ passes' = IF edited = workingData /\ passes >= 1 THEN 2 ELSE 1

Next ==
    \/ updateAllDerivedHealthFactorData
    \/ \E inp \in ReserveQuantityInputs : setReserveAssetQuantity(inp[1], inp[2])
    \/ \E inp \in BorrowQuantityInputs : setBorrowedAssetQuantity(inp[1], inp[2])
    \/ \E inp \in PriceInputs : setAssetPriceInUSD(inp[1], inp[2])
    \/ \E symbol \in CollateralInputs, value \in BOOLEAN :
          setUseReserveAssetAsCollateral(symbol, value)

Spec == Init /\ [][Next]_vars

---------------------------------------------------------------------------
\* Properties of the derived-metrics pass.

\* C1: after updateDerivedHealthFactorData the stored totals are the number
\* images of the totals of the pass; healthFactor is collateral x
\* currentLiquidationThreshold / borrows when the borrows are positive and
\* Infinity when they are zero; with no collateral and positive borrows
\* currentLiquidationThreshold and healthFactor are both 0.
C1_HealthFactor ==
    locals.ran =>
        LET collateral == locals.updatedCollateral
            threshold == locals.updatedCurrentLiquidationThreshold
            borrows == locals.totalBorrowsETH
        IN  /\ workingData.totalCollateralMarketReferenceCurrency = ToNumber(collateral)
            /\ workingData.currentLiquidationThreshold = ToNumber(threshold)
            /\ workingData.totalBorrowsMarketReferenceCurrency = ToNumber(borrows)
            /\ Gt(borrows, Zero) =>
                  workingData.healthFactor =
                      ToNumber(DividedBy(Mul(collateral, threshold), borrows))
            /\ borrows = Zero => workingData.healthFactor = Infinity
            /\ (collateral = Zero /\ Gt(borrows, Zero)) =>
                  /\ workingData.currentLiquidationThreshold = Zero
                  /\ workingData.healthFactor = Zero

\* a pass has run on a position with collateral and debt and left a health
\* factor that is neither 0 nor Infinity
C1_Witness ==
    /\ locals.ran
    /\ Gt(locals.updatedCollateral, Zero)
    /\ Gt(locals.totalBorrowsETH, Zero)
    /\ IsFinite(workingData.healthFactor)
    /\ Gt(workingData.healthFactor, One)
    /\ Len(workingData.userReservesData) = 2

\* the example of the specification: 1 cbBTC at $60,000, loan-to-value 7500,
\* liquidation threshold 7800, collateral enabled, 40,000 USDC borrowed at $1
IsConcreteScenario(data) ==
    /\ Len(data.userReservesData) = 1
    /\ Len(data.userBorrowsData) = 1
    /\ data.userReservesData[1].asset.symbol = cbBTC
    /\ data.userReservesData[1].underlyingBalance = Num(1)
    /\ data.userReservesData[1].asset.priceInUSD = Num(60000)
    /\ data.userReservesData[1].asset.baseLTVasCollateral = 7500
    /\ data.userReservesData[1].usageAsCollateralEnabledOnUser
    /\ data.userBorrowsData[1].asset.symbol = USDC
    /\ data.userBorrowsData[1].totalBorrows = Num(40000)
    /\ data.userBorrowsData[1].asset.priceInUSD = Num(1)

\* C2: after updateDerivedHealthFactorData availableBorrowsUSD is
\* max(0, collateral x currentLoanToValue - borrows) x marketRefPrice and is
\* never negative; with no borrow line item it is collateral x
\* currentLoanToValue x marketRefPrice; the example position gives 5,000.
C2_AvailableBorrows ==
    locals.ran =>
        LET collateral == locals.updatedCollateral
            ltv == locals.updatedCurrentLoanToValue
            borrows == locals.totalBorrowsETH
            price == marketReferenceCurrencyPriceInUSD
        IN  /\ workingData.currentLoanToValue = ToNumber(ltv)
            /\ workingData.availableBorrowsUSD =
                  ToNumber(Mul(Max(Zero, Sub(Mul(collateral, ltv), borrows)), price))
            /\ Ge(workingData.availableBorrowsUSD, Zero)
            /\ Len(workingData.userBorrowsData) = 0 =>
                  workingData.availableBorrowsUSD =
                      ToNumber(Mul(Mul(collateral, ltv), price))
            /\ IsConcreteScenario(workingData) =>
                  workingData.availableBorrowsUSD = Num(5000)

\* a pass has run on a position that owes more than its collateral lets it
\* borrow: the headroom is floored
C2_Witness ==
    /\ locals.ran
    /\ Gt(locals.updatedCollateral, Zero)
    /\ Lt(Mul(locals.updatedCollateral, locals.updatedCurrentLoanToValue),
          locals.totalBorrowsETH)
    /\ workingData.availableBorrowsUSD = Zero

\* C3: a pass that runs on a position a pass has just produced, with the
\* same market reference price, changes no line item and no derived field.
C3_Idempotent ==
    [][passes' = 2 => workingData' = workingData]_vars

\* two passes have run in a row on a position with collateral, debt and a
\* price override
C3_Witness ==
    /\ passes = 2
    /\ Gt(locals.updatedCollateral, Zero)
    /\ Gt(locals.totalBorrowsETH, Zero)
    /\ \E k \in 1..Len(workingData.userBorrowsData) :
          workingData.userBorrowsData[k].asset.priceInUSD = Cents(98)

\* The weights the claim prescribes for a reserve, with `active` deciding
\* when the e-mode pair applies.
PrescribedWeights(asset, active) ==
    IF active
    THEN [lt |-> asset.eModeLiquidationThreshold, ltv |-> asset.eModeLtv]
    ELSE [lt |-> asset.reserveLiquidationThreshold, ltv |-> asset.baseLTVasCollateral]

WeightsFollow(active(_, _)) ==
    locals.ran =>
        \A k \in 1..Len(workingData.userReservesData) :
            LET item == workingData.userReservesData[k]
                w == PrescribedWeights(item.asset,
                                       active(item.asset, workingData.userEmodeCategoryId))
            IN  locals.weights[k].counted =>
                    /\ locals.weights[k].lt = w.lt
                    /\ locals.weights[k].ltv = w.ltv

SameCategory(asset, userEmodeCategoryId) ==
    asset.eModeCategoryId = userEmodeCategoryId

PresentSameCategory(asset, userEmodeCategoryId) ==
    asset.eModeCategoryId # 0 /\ asset.eModeCategoryId = userEmodeCategoryId

\* C4 as stated: a collateral-enabled reserve is weighted with its e-mode
\* pair exactly when its category id equals the position's category id.
C4_AsStated == WeightsFollow(SameCategory)

\* C4 as amended: a collateral-enabled reserve is weighted with its e-mode
\* pair exactly when it has a category id (one that is not 0 or absent) and
\* that id equals the position's category id; otherwise with its base pair.
C4_EmodeWeights == WeightsFollow(PresentSameCategory)

\* a pass has weighted one reserve with its e-mode pair and another with
\* its base pair
C4_Witness ==
    /\ locals.ran
    /\ \E k \in 1..Len(workingData.userReservesData) :
          /\ locals.weights[k].counted
          /\ locals.weights[k].lt =
                workingData.userReservesData[k].asset.eModeLiquidationThreshold
          /\ workingData.userReservesData[k].asset.eModeCategoryId # 0
    /\ \E k \in 1..Len(workingData.userReservesData) :
          /\ locals.weights[k].counted
          /\ locals.weights[k].lt =
                workingData.userReservesData[k].asset.reserveLiquidationThreshold
          /\ workingData.userReservesData[k].asset.eModeCategoryId = 0

---------------------------------------------------------------------------
\* getEligibleLiquidationScenarioReserves and getCalculatedLiquidationScenario.
\* The prices the solver writes are plain numbers kept to the cent; HF_LIMIT
\* is 1.0049999999999, which no health factor of the modelled precision lies
\* strictly between and 1.005, so `hf < HF_LIMIT` is hf < 1.005 and
\* `hf > HF_LIMIT` is hf >= 1.005.

MINIMUM_CUMULATIVE_RESERVE_USD == 50
MINIMUM_CUMULATIVE_RESERVE_PCT == 5
SHORT_CIRCUIT_LOOP_LIMIT == 500
HF_LIMIT == Norm(1005, 1000)

BelowLimit(hf) == Lt(hf, HF_LIMIT)
AboveLimit(hf) == Ge(hf, HF_LIMIT)

\* hasNonStablecoinBorrows with `every` in place of `some`
hasNonStablecoinBorrowsEvery(hfData) ==
    /\ Len(hfData.userBorrowsData) > 0
    /\ \A k \in 1..Len(hfData.userBorrowsData) :
          ~isStablecoinAsset(hfData.userBorrowsData[k].asset)

hasNonStablecoinBorrows(hfData) ==
    \E k \in 1..Len(hfData.userBorrowsData) :
        ~isStablecoinAsset(hfData.userBorrowsData[k].asset)

\* the filter callback: !isStableCoin && isCollateralEnabled
IsCandidateReserve(reserve) ==
    ~isStablecoinAsset(reserve.asset) /\ reserve.usageAsCollateralEnabledOnUser

\* the positions, in order, of the reserves the filter keeps
RECURSIVE FilterFrom(_, _)
FilterFrom(items, k) ==
    IF k > Len(items) THEN << >>
    ELSE (IF IsCandidateReserve(items[k]) THEN <<k>> ELSE << >>)
         \o FilterFrom(items, k + 1)

\* exceedsMinResUSD with >= in place of >
exceedsMinResUSDInclusive(cumulativeReserveUSDValue) ==
    Ge(cumulativeReserveUSDValue, Num(MINIMUM_CUMULATIVE_RESERVE_USD))

exceedsMinResUSD(cumulativeReserveUSDValue) ==
    Gt(cumulativeReserveUSDValue, Num(MINIMUM_CUMULATIVE_RESERVE_USD))

exceedsMinResPct(cumulativeReserveMRCValue, totalCollateralMarketReferenceCurrency) ==
    Gt(cumulativeReserveMRCValue,
       Mul(totalCollateralMarketReferenceCurrency,
           Norm(MINIMUM_CUMULATIVE_RESERVE_PCT, 100)))

hasDifferentBorrowedAsset(hfData, eligible) ==
    /\ Len(hfData.userBorrowsData) # 0
    /\ \E b \in 1..Len(hfData.userBorrowsData) :
          ~\E k \in 1..Len(eligible) :
              hfData.userReservesData[eligible[k]].asset.symbol =
                  hfData.userBorrowsData[b].asset.symbol

\* The positions in userReservesData of the reserves
\* getEligibleLiquidationScenarioReserves returns.
EligibleIndexes(hfData) ==
    IF hasNonStablecoinBorrows(hfData) THEN << >>
    ELSE
    LET eligible == FilterFrom(hfData.userReservesData, 1)
        cumulativeReserveUSDValue ==
            SumUpTo([k \in 1..Len(eligible) |->
                        hfData.userReservesData[eligible[k]].underlyingBalanceUSD],
                    Len(eligible))
        cumulativeReserveMRCValue ==
            SumUpTo([k \in 1..Len(eligible) |->
                        hfData.userReservesData[eligible[k]]
                            .underlyingBalanceMarketReferenceCurrency],
                    Len(eligible))
        hasSufficientValue ==
            /\ exceedsMinResPct(cumulativeReserveMRCValue,
                                hfData.totalCollateralMarketReferenceCurrency)
            /\ exceedsMinResUSD(cumulativeReserveUSDValue)
    IN  IF ~hasSufficientValue THEN << >>
        ELSE IF hasDifferentBorrowedAsset(hfData, eligible) THEN eligible
        ELSE << >>

getEligibleLiquidationScenarioReserves(hfData) ==
    LET eligible == EligibleIndexes(hfData)
    IN  [k \in 1..Len(eligible) |-> hfData.userReservesData[eligible[k]]]

\* JSON.parse(JSON.stringify(hfData)): a number that is not finite comes
\* back as null; healthFactor is the one field that can be Infinity.
JsonClone(hfData) ==
    [hfData EXCEPT !.healthFactor = IF IsFinite(@) THEN @ ELSE Null]

\* `hfData?.healthFactor || -1`
InitialHf(hfData) ==
    IF hfData.healthFactor = Null \/ hfData.healthFactor = Zero
    THEN Num(-1)
    ELSE hfData.healthFactor

\* Math.round((x + Number.EPSILON) * 100) / 100 === 1.0
RoundsToOne(hf) == IsFinite(hf) /\ RoundCents(hf) = One

\* the tail of both forEach bodies: copy the price to the reserve and the
\* borrow of the same symbol, run the derived-metrics pass
Reprice(hfData, r, price, marketRefPrice) ==
    LET d0 == [hfData EXCEPT !.userReservesData[r].asset.priceInUSD = price]
    IN  updateDerivedHealthFactorData(
            WithAssetPriceInUSD(d0, hfData.userReservesData[r].asset.symbol, price),
            marketRefPrice)

\* The body of the expansion forEach for the asset of reserve r.
ExpandAsset(st, r, marketRefPrice) ==
    LET price == st.hfData.userReservesData[r].asset.priceInUSD
        priceIncrement ==
            RoundCents(Mul(IF price = Zero THEN One ELSE price, Norm(1, 10)))
        updatedWorkingData ==
            Reprice(st.hfData, r, Add(price, priceIncrement), marketRefPrice)
    IN  [st EXCEPT !.hfData = updatedWorkingData,
                   !.hf = updatedWorkingData.healthFactor]

RECURSIVE ExpandFrom(_, _, _, _)
ExpandFrom(st, assets, k, marketRefPrice) ==
    IF k > Len(assets) THEN st
    ELSE ExpandFrom(ExpandAsset(st, assets[k], marketRefPrice), assets, k + 1,
                    marketRefPrice)

\* the first branch of priceDecrement's initialiser and the second, before
\* rounding; price * min(x, 0.5) is min(price * x, price * 0.5)
PriceDecrement(price, hf, decrementPercentage) ==
    IF decrementPercentage # Zero
    THEN Max(Cents(1), Quot(Mul(decrementPercentage, price), Num(100)))
    ELSE Max(Cents(1),
             Mul(price, Min(Mul(Sub(hf, HF_LIMIT), Norm(45, 100)), Norm(1, 2))))

\* `!assets.find((asset) => asset.priceInUSD > 0.01)`
NoAssetAboveOneCent(hfData, assets) ==
    ~\E k \in 1..Len(assets) :
        Gt(hfData.userReservesData[assets[k]].asset.priceInUSD, Cents(1))

\* ContractAsset without the `healthFactor < 1.0` restore
ContractAssetNoRestore(st, r, assets, marketRefPrice) ==
    IF BelowLimit(st.hf) THEN st
    ELSE
    LET initialPrice == st.hfData.userReservesData[r].asset.priceInUSD
        priceDecrement ==
            RoundCents(PriceDecrement(initialPrice, st.hf, st.decrementPercentage))
        decrementPercentage ==
            IF st.decrementPercentage = Zero
            THEN Quot(Mul(priceDecrement, Num(100)), initialPrice)
            ELSE st.decrementPercentage
        price == Max(Sub(initialPrice, priceDecrement), Cents(1))
        d0 == [st.hfData EXCEPT !.userReservesData[r].asset.priceInUSD = price]
        shortCircuit ==
            st.shortCircuit \/ (price = Cents(1) /\ NoAssetAboveOneCent(d0, assets))
        updatedWorkingData == Reprice(st.hfData, r, price, marketRefPrice)
    IN  [st EXCEPT !.hfData = updatedWorkingData,
                   !.hf = updatedWorkingData.healthFactor,
                   !.decrementPercentage = decrementPercentage,
                   !.shortCircuit = shortCircuit]

\* The body of the contraction forEach for the asset of reserve r.
ContractAsset(st, r, assets, marketRefPrice) ==
    IF BelowLimit(st.hf) THEN st
    ELSE
    LET initialPrice == st.hfData.userReservesData[r].asset.priceInUSD
        priceDecrement ==
            RoundCents(PriceDecrement(initialPrice, st.hf, st.decrementPercentage))
        decrementPercentage ==
            IF st.decrementPercentage = Zero
            THEN Quot(Mul(priceDecrement, Num(100)), initialPrice)
            ELSE st.decrementPercentage
        price == Max(Sub(initialPrice, priceDecrement), Cents(1))
        d0 == [st.hfData EXCEPT !.userReservesData[r].asset.priceInUSD = price]
        shortCircuit ==
            st.shortCircuit \/ (price = Cents(1) /\ NoAssetAboveOneCent(d0, assets))
        updatedWorkingData == Reprice(st.hfData, r, price, marketRefPrice)
    IN  IF Lt(updatedWorkingData.healthFactor, One)
        THEN [st EXCEPT
                 !.hfData = [updatedWorkingData EXCEPT
                                !.userReservesData[r].asset.priceInUSD = initialPrice],
                 !.decrementPercentage = decrementPercentage,
                 !.shortCircuit = shortCircuit]
        ELSE [st EXCEPT !.hfData = updatedWorkingData,
                        !.hf = updatedWorkingData.healthFactor,
                        !.decrementPercentage = decrementPercentage,
                        !.shortCircuit = shortCircuit]

RECURSIVE ContractFrom(_, _, _, _)
ContractFrom(st, assets, k, marketRefPrice) ==
    IF k > Len(assets) THEN st
    ELSE ContractFrom(ContractAsset(st, assets[k], assets, marketRefPrice),
                      assets, k + 1, marketRefPrice)

\* the expansion loop's condition
ExpandCondition(st) ==
    BelowLimit(st.hf) /\ st.i < SHORT_CIRCUIT_LOOP_LIMIT

\* ContractCondition without the loop limit
ContractConditionUnlimited(st) ==
    AboveLimit(st.hf) /\ ~st.shortCircuit

\* the contraction loop's condition
ContractCondition(st) ==
    AboveLimit(st.hf) /\ st.i < SHORT_CIRCUIT_LOOP_LIMIT /\ ~st.shortCircuit

\* `assets`: the asset objects of the eligible reserves of the clone
AssetsOf(hfData, assets) ==
    [k \in 1..Len(assets) |-> hfData.userReservesData[assets[k]].asset]

\* The activation record once a call has returned `result`.
Returned(st, result) ==
    [st EXCEPT !.pc = "done", !.result = result]

\* getCalculatedLiquidationScenario up to its first loop
ScenarioEntered(input) ==
    LET hfData == JsonClone(input)
        assets == EligibleIndexes(hfData)
        hf == InitialHf(hfData)
        st == [pc |-> "expand", input |-> input, hfData |-> hfData,
               assets |-> assets, hf |-> hf, i |-> 0, sweeps |-> 0,
               decrementPercentage |-> Zero, shortCircuit |-> FALSE,
               result |-> << >>]
    IN  IF Len(assets) = 0 \/ hf = Infinity \/ hf = Num(-1)
        THEN Returned(st, << >>)
        ELSE IF RoundsToOne(hf)
        THEN Returned(st, AssetsOf(hfData, assets))
        ELSE st

StartScenario ==
    /\ solver.pc = "idle"
    /\ solver' = ScenarioEntered(workingData)
    /\ UNCHANGED <<workingData, marketReferenceCurrencyPriceInUSD, passes, locals, fee, fetchedData, isRefreshActive, inFlight,
                   availableAssets, call, operations>>

\* one iteration of the first while loop
ExpandSweep ==
    /\ solver.pc = "expand"
    /\ ExpandCondition(solver)
    /\ solver' =
          ExpandFrom([solver EXCEPT !.i = @ + 1, !.sweeps = @ + 1],
                     solver.assets, 1, marketReferenceCurrencyPriceInUSD)
    /\ UNCHANGED <<workingData, marketReferenceCurrencyPriceInUSD, passes, locals, fee, fetchedData, isRefreshActive, inFlight,
                   availableAssets, call, operations>>

\* the first loop ends: `let shortCircuit = false`
EnterContraction ==
    /\ solver.pc = "expand"
    /\ ~ExpandCondition(solver)
    /\ solver' = [solver EXCEPT !.pc = "contract", !.shortCircuit = FALSE]
    /\ UNCHANGED <<workingData, marketReferenceCurrencyPriceInUSD, passes, locals, fee, fetchedData, isRefreshActive, inFlight,
                   availableAssets, call, operations>>

\* one iteration of the second while loop
ContractSweep ==
    /\ solver.pc = "contract"
    /\ ContractCondition(solver)
    /\ solver' =
          ContractFrom([solver EXCEPT !.i = @ + 1, !.sweeps = @ + 1,
                                      !.decrementPercentage = Zero],
                       solver.assets, 1, marketReferenceCurrencyPriceInUSD)
    /\ UNCHANGED <<workingData, marketReferenceCurrencyPriceInUSD, passes, locals, fee, fetchedData, isRefreshActive, inFlight,
                   availableAssets, call, operations>>

\* the second loop ends: `if (shortCircuit || i === SHORT_CIRCUIT_LOOP_LIMIT) assets = []`
ReturnScenario ==
    /\ solver.pc = "contract"
    /\ ~ContractCondition(solver)
    /\ solver' =
          Returned(solver,
                   IF solver.shortCircuit \/ solver.i = SHORT_CIRCUIT_LOOP_LIMIT
                   THEN << >>
                   ELSE AssetsOf(solver.hfData, solver.assets))
    /\ UNCHANGED <<workingData, marketReferenceCurrencyPriceInUSD, passes, locals, fee, fetchedData, isRefreshActive, inFlight,
                   availableAssets, call, operations>>

\* the working position before the n-th setAssetPriceInUSD call of
\* `liquidationScenario.forEach` has run its derived-metrics pass
RECURSIVE ApplyPrices(_, _, _, _)
ApplyPrices(data, scenario, n, marketRefPrice) ==
    IF n = 0 THEN data
    ELSE WithAssetPriceInUSD(
            IF n = 1 THEN data
            ELSE updateDerivedHealthFactorData(
                    ApplyPrices(data, scenario, n - 1, marketRefPrice), marketRefPrice),
            scenario[n].symbol, scenario[n].priceInUSD)

\* applyLiquidationScenario, once the scenario it asked for has been returned
applyLiquidationScenario ==
    /\ solver.pc = "done"
    /\ call.op # "applyRefreshPreservingWorkingData"
    /\ IF Len(solver.result) = 0
       THEN UNCHANGED <<workingData, locals, passes>>
       ELSE LET l == UpdateLocals(
                        ApplyPrices(workingData, solver.result, Len(solver.result),
                                    marketReferenceCurrencyPriceInUSD),
                        marketReferenceCurrencyPriceInUSD)
            IN  /\ workingData' =
                      WriteDerived(
                          ApplyPrices(workingData, solver.result, Len(solver.result),
                                      marketReferenceCurrencyPriceInUSD), l)
                /\ locals' = LocalsOf(l)
                /\ passes' = 1
    /\ solver' = IdleSolver
    /\ Called("applyLiquidationScenario", << >>)
    /\ isRefreshActive' = FALSE
    /\ availableAssets' = CatalogAfter(workingData', availableAssets)
    /\ UNCHANGED <<marketReferenceCurrencyPriceInUSD, fee, fetchedData, inFlight,
                   operations>>

\* `asset` at another USD price
Priced(asset, price) ==
    [asset EXCEPT !.priceInUSD = price, !.priceInMarketReferenceCurrency = price]

\* The positions the solver is asked about.
SolverSnapshots ==
    { \* under water: one volatile reserve
      Position(<<ReserveItem(Priced(AssetWETH, Num(10)), Num(10), TRUE)>>,
               <<BorrowItem(AssetUSDC, Num(90))>>, 0),
      \* healthy: two volatile reserves
      Position(<<ReserveItem(Priced(AssetWETH, Num(10)), Num(10), TRUE),
                 ReserveItem(Priced(AssetCbBTC, Num(30)), Num(2), TRUE)>>,
               <<BorrowItem(AssetUSDC, Num(100))>>, 0),
      \* one cent of price is two percent of health factor
      Position(<<ReserveItem(Priced(AssetWETH, Cents(50)), Num(200), TRUE)>>,
               <<BorrowItem(AssetUSDC, Cents(8250))>>, 0),
      \* stable collateral carries the debt alone
      Position(<<ReserveItem(Priced(AssetWETH, Num(10)), Num(10), TRUE),
                 ReserveItem(AssetUSDC, Num(500), TRUE)>>,
               <<BorrowItem(AssetUSDC, Num(100))>>, 0),
      \* a volatile borrow next to a stable one
      Position(<<ReserveItem(Priced(AssetCbBTC, Num(30)), Num(4), TRUE)>>,
               <<BorrowItem(AssetUSDC, Num(50)),
                 BorrowItem(Priced(AssetWETH, Num(10)), Num(1))>>, 0),
      \* health factor 1.00 already
      Position(<<ReserveItem(Priced(AssetWETH, Num(10)), Num(10), TRUE)>>,
               <<BorrowItem(AssetUSDC, Num(83))>>, 0),
      \* volatile collateral worth exactly $50
      Position(<<ReserveItem(Priced(AssetWETH, Num(10)), Num(5), TRUE)>>,
               <<BorrowItem(AssetUSDC, Num(30))>>, 0),
      \* volatile collateral under 5% of the collateral
      Position(<<ReserveItem(Priced(AssetWETH, Num(10)), Cents(510), TRUE),
                 ReserveItem(AssetUSDC, Num(1000), TRUE)>>,
               <<BorrowItem(AssetUSDC, Num(100))>>, 0),
      \* no borrow
      Position(<<ReserveItem(Priced(AssetWETH, Num(10)), Num(10), TRUE)>>, << >>, 0),
      \* volatile reserve not used as collateral
      Position(<<ReserveItem(Priced(AssetWETH, Num(10)), Num(10), FALSE),
                 ReserveItem(AssetUSDC, Num(200), TRUE)>>,
               <<BorrowItem(AssetUSDC, Num(100))>>, 0),
      \* health factor 1.00 at a price of one cent
      Position(<<ReserveItem(Priced(AssetWETH, Cents(2)), Num(10000), TRUE)>>,
               <<BorrowItem(AssetUSDC, Num(83))>>, 0) }

InitSolver ==
    /\ marketReferenceCurrencyPriceInUSD \in MarketRefPrices
    /\ \E snap \in SolverSnapshots :
          workingData \in
            {snap, updateDerivedHealthFactorData(snap, marketReferenceCurrencyPriceInUSD)}
    /\ passes = 0
    /\ locals = NoLocals
    /\ solver = IdleSolver
    /\ fee = NoFee
    /\ availableAssets = Catalog
    /\ call = NoCall
    /\ operations = 0
    /\ fetchedData = workingData
    /\ isRefreshActive = TRUE
    /\ inFlight = 0

NextSolver ==
    \/ StartScenario
    \/ ExpandSweep
    \/ EnterContraction
    \/ ContractSweep
    \/ ReturnScenario
    \/ applyLiquidationScenario

SpecSolver == InitSolver /\ [][NextSolver]_vars

---------------------------------------------------------------------------
\* Properties of the liquidation scenario.

\* the position with the listed prices written to the line items
RECURSIVE WithScenarioPrices(_, _, _)
WithScenarioPrices(data, scenario, n) ==
    IF n = 0 THEN data
    ELSE WithAssetPriceInUSD(WithScenarioPrices(data, scenario, n - 1),
                             scenario[n].symbol, scenario[n].priceInUSD)

\* C5: when getCalculatedLiquidationScenario returns a list that is not
\* empty, the input position with each listed asset's USD price set and its
\* derived metrics recomputed has a health factor that rounds to 1.00.
C5_ScenarioRoundsToOne ==
    (solver.pc = "done" /\ Len(solver.result) > 0) =>
        LET recomputed ==
                updateDerivedHealthFactorData(
                    WithScenarioPrices(solver.input, solver.result, Len(solver.result)),
                    marketReferenceCurrencyPriceInUSD)
        IN  /\ IsFinite(recomputed.healthFactor)
            /\ RoundHalfUp(recomputed.healthFactor, 2) = One

\* a call returned two assets after sweeps of both loops
C5_Witness ==
    /\ solver.pc = "done"
    /\ Len(solver.result) = 2
    /\ solver.sweeps > 2
    /\ \A k \in 1..2 :
          solver.result[k].priceInUSD #
              solver.input.userReservesData[solver.assets[k]].asset.priceInUSD

\* C6: for a position with a borrow line item whose asset is not a
\* stablecoin, getEligibleLiquidationScenarioReserves returns the empty
\* list and getCalculatedLiquidationScenario returns the empty list at once.
C6_VolatileBorrowNoScenario ==
    (/\ solver.pc # "idle"
     /\ \E b \in 1..Len(solver.input.userBorrowsData) :
           ~isStablecoinAsset(solver.input.userBorrowsData[b].asset)) =>
        /\ getEligibleLiquidationScenarioReserves(solver.input) = << >>
        /\ solver.assets = << >>
        /\ solver.pc = "done"
        /\ solver.result = << >>
        /\ solver.sweeps = 0

\* a call returned for a position that has a volatile borrow, a stable
\* borrow, and volatile collateral of more than $50
C6_Witness ==
    /\ solver.pc = "done"
    /\ \E b \in 1..Len(solver.input.userBorrowsData) :
          ~isStablecoinAsset(solver.input.userBorrowsData[b].asset)
    /\ \E b \in 1..Len(solver.input.userBorrowsData) :
          isStablecoinAsset(solver.input.userBorrowsData[b].asset)
    /\ \E r \in 1..Len(solver.input.userReservesData) :
          /\ ~isStablecoinAsset(solver.input.userReservesData[r].asset)
          /\ solver.input.userReservesData[r].usageAsCollateralEnabledOnUser
          /\ Gt(solver.input.userReservesData[r].underlyingBalanceUSD, Num(50))

\* the sum of f over the finite set S
RECURSIVE SumOver(_, _)
SumOver(S, f) ==
    IF S = {} THEN Zero
    ELSE LET x == CHOOSE x \in S : TRUE
         IN  Add(f[x], SumOver(S \ {x}, f))

\* C7: when every borrow is a stablecoin, the reserves returned are exactly
\* the reserves that are not stablecoins and are enabled as collateral by
\* the user, in position order, provided their USD values sum to more than
\* 50, their market-reference values sum to more than 5% of the total
\* collateral, and some borrow symbol is not among them; otherwise none.
C7_EligibleReserves ==
    (/\ solver.pc # "idle"
     /\ \A b \in 1..Len(solver.input.userBorrowsData) :
           isStablecoinAsset(solver.input.userBorrowsData[b].asset)) =>
        LET reserves == solver.input.userReservesData
            borrows == solver.input.userBorrowsData
            C == {r \in 1..Len(reserves) :
                     /\ ~isStablecoinAsset(reserves[r].asset)
                     /\ reserves[r].usageAsCollateralEnabledOnUser}
            usd == SumOver(C, [r \in C |-> reserves[r].underlyingBalanceUSD])
            mrc == SumOver(C, [r \in C |->
                                  reserves[r].underlyingBalanceMarketReferenceCurrency])
            qualifies ==
                /\ Gt(usd, Num(50))
                /\ Gt(Mul(mrc, Num(100)),
                      Mul(solver.input.totalCollateralMarketReferenceCurrency, Num(5)))
                /\ \E b \in 1..Len(borrows) :
                      \A r \in C : reserves[r].asset.symbol # borrows[b].asset.symbol
        IN  IF qualifies
            THEN /\ Len(solver.assets) = Cardinality(C)
                 /\ {solver.assets[k] : k \in 1..Len(solver.assets)} = C
                 /\ \A j, k \in 1..Len(solver.assets) :
                       j < k => solver.assets[j] < solver.assets[k]
                 /\ getEligibleLiquidationScenarioReserves(solver.input) =
                       [k \in 1..Len(solver.assets) |-> reserves[solver.assets[k]]]
            ELSE /\ solver.assets = << >>
                 /\ getEligibleLiquidationScenarioReserves(solver.input) = << >>

\* a call found one eligible reserve in a position that also holds a
\* stable reserve
C7_Witness ==
    /\ solver.pc # "idle"
    /\ Len(solver.assets) = 1
    /\ Len(solver.input.userReservesData) = 2
    /\ \A b \in 1..Len(solver.input.userBorrowsData) :
          isStablecoinAsset(solver.input.userBorrowsData[b].asset)

\* the steps a call in progress can still take: the sweeps its counter
\* leaves, the passage to the second loop, the return
StepsLeft(st) ==
    CASE st.pc = "expand" -> (SHORT_CIRCUIT_LOOP_LIMIT - st.i) + 2
      [] st.pc = "contract" -> (SHORT_CIRCUIT_LOOP_LIMIT - st.i) + 1
      [] OTHER -> 0

\* C8: a call of getCalculatedLiquidationScenario runs at most 500 sweeps,
\* expansion and contraction together, all counted by i; every step of a
\* call in progress uses up one of the steps its counter leaves it, so the
\* call returns; and what it returns is empty when i reached 500 or the
\* short-circuit flag was set.
C8_Budget ==
    [][solver'.pc # "idle" =>
          /\ solver'.sweeps <= SHORT_CIRCUIT_LOOP_LIMIT
          /\ solver'.i = solver'.sweeps
          /\ StepsLeft(solver') >= 0
          /\ solver.pc \in {"expand", "contract"} =>
                StepsLeft(solver') < StepsLeft(solver)
          /\ (solver'.pc = "done"
              /\ (solver'.shortCircuit \/ solver'.i = SHORT_CIRCUIT_LOOP_LIMIT))
                => solver'.result = << >>]_vars

\* a call returned after 500 sweeps without the short-circuit flag
C8_Witness ==
    /\ solver.pc = "done"
    /\ solver.sweeps = SHORT_CIRCUIT_LOOP_LIMIT
    /\ ~solver.shortCircuit
    /\ solver.result = << >>

---------------------------------------------------------------------------
\* The fee and slippage model.  An optional slippage is a sequence: << >>
\* for null or undefined, <<bps>> for a number.

SWAP_FEE_BPS == 25
EXECUTION_FEE_BPS == 5
DEFAULT_SLIPPAGE_BPS == 150
SWAP_SLIPPAGE_PCT == Norm(DEFAULT_SLIPPAGE_BPS, 10000)

\* the module constant: the multiplier at the default slippage
SWAP_FEE_MULTIPLIER ==
    Mul(Sub(One, Norm(SWAP_FEE_BPS + EXECUTION_FEE_BPS, 10000)),
        Sub(One, SWAP_SLIPPAGE_PCT))

\* the `/` of two numbers, the dividend not negative: 0/0 is NaN
Divide(a, b) ==
    IF b = Zero THEN (IF a = Zero THEN Null ELSE Infinity)
    ELSE Quot(a, b)

\* OrDefault with no slippage when none is given
OrDefaultNone(slippageBps) ==
    IF slippageBps = << >> THEN 0 ELSE slippageBps[1]

\* `slippageBps ?? DEFAULT_SLIPPAGE_BPS`
OrDefault(slippageBps) ==
    IF slippageBps = << >> THEN DEFAULT_SLIPPAGE_BPS ELSE slippageBps[1]

getSwapFeeMultiplierForSlippageBps(slippageBps) ==
    Mul(Sub(One, Norm(SWAP_FEE_BPS + EXECUTION_FEE_BPS, 10000)),
        Sub(One, Norm(slippageBps, 10000)))

\* getSwapFeeBreakdown taking the slippage on the amount before fees
getSwapFeeBreakdownOnNotional(swapUsd, slippageBps) ==
    LET bps == OrDefault(slippageBps)
        swapFeeUsd == Mul(swapUsd, Norm(SWAP_FEE_BPS, 10000))
        executionFeeUsd == Mul(swapUsd, Norm(EXECUTION_FEE_BPS, 10000))
        totalFeeUsd == Add(swapFeeUsd, executionFeeUsd)
        receiveUsdAfterFees == Sub(swapUsd, totalFeeUsd)
        slippageUsd == Mul(swapUsd, Norm(bps, 10000))
        receiveUsd == Sub(receiveUsdAfterFees, slippageUsd)
    IN  [swapFeeUsd |-> swapFeeUsd,
         executionFeeUsd |-> executionFeeUsd,
         totalFeeUsd |-> totalFeeUsd,
         slippageUsd |-> slippageUsd,
         slippageBps |-> bps,
         receiveUsd |-> receiveUsd]

getSwapFeeBreakdown(swapUsd, slippageBps) ==
    LET bps == OrDefault(slippageBps)
        swapFeeUsd == Mul(swapUsd, Norm(SWAP_FEE_BPS, 10000))
        executionFeeUsd == Mul(swapUsd, Norm(EXECUTION_FEE_BPS, 10000))
        totalFeeUsd == Add(swapFeeUsd, executionFeeUsd)
        receiveUsdAfterFees == Sub(swapUsd, totalFeeUsd)
        slippageUsd == Mul(receiveUsdAfterFees, Norm(bps, 10000))
        receiveUsd == Sub(receiveUsdAfterFees, slippageUsd)
    IN  [swapFeeUsd |-> swapFeeUsd,
         executionFeeUsd |-> executionFeeUsd,
         totalFeeUsd |-> totalFeeUsd,
         slippageUsd |-> slippageUsd,
         slippageBps |-> bps,
         receiveUsd |-> receiveUsd]

\* getCollateralUsdNeededForRepay dividing by the module constant
getCollateralUsdNeededForRepayDefault(receiveUsd, slippageBps) ==
    Divide(receiveUsd, SWAP_FEE_MULTIPLIER)

getCollateralUsdNeededForRepay(receiveUsd, slippageBps) ==
    LET bps == OrDefault(slippageBps)
        mult == getSwapFeeMultiplierForSlippageBps(bps)
    IN  Divide(receiveUsd, mult)

\* The notional amounts and the slippages the dialogs pass.
SwapUsdInputs ==
    { Cents(1), Cents(25), Cents(50), Num(1), Num(2), Num(5), Num(10), Cents(1250),
      Num(25), Num(50), Num(100), Num(250), Num(1000), Num(5000), Num(10000) }
SlippageInputs == { << >>, <<0>>, <<50>>, <<150>>, <<300>>, <<10000>> }

\* a dialog computes the breakdown of a swap
SwapFeeBreakdown(swapUsd, slippageBps) ==
    /\ fee' = [op |-> "breakdown", swapUsd |-> swapUsd, slippageBps |-> slippageBps,
               breakdown |-> getSwapFeeBreakdown(swapUsd, slippageBps),
               collateralUsdNeeded |-> Null]
    /\ UNCHANGED <<workingData, marketReferenceCurrencyPriceInUSD, passes, locals, solver,
                   availableAssets, call, operations, fetchedData, isRefreshActive, inFlight>>

\* the amount to sell is sized from the net amount of the last breakdown,
\* at the same slippage
CollateralUsdNeededForRepay ==
    /\ fee.op = "breakdown"
    /\ fee' = [fee EXCEPT
                  !.op = "needed",
                  !.collateralUsdNeeded =
                      getCollateralUsdNeededForRepay(fee.breakdown.receiveUsd,
                                                     fee.slippageBps)]
    /\ UNCHANGED <<workingData, marketReferenceCurrencyPriceInUSD, passes, locals, solver,
                   availableAssets, call, operations, fetchedData, isRefreshActive, inFlight>>

InitFee ==
    /\ marketReferenceCurrencyPriceInUSD = Num(1)
    /\ workingData = Position(<< >>, << >>, 0)
    /\ passes = 0
    /\ locals = NoLocals
    /\ solver = IdleSolver
    /\ fee = NoFee
    /\ availableAssets = Catalog
    /\ call = NoCall
    /\ operations = 0
    /\ fetchedData = workingData
    /\ isRefreshActive = TRUE
    /\ inFlight = 0

NextFee ==
    \/ \E swapUsd \in SwapUsdInputs, slippageBps \in SlippageInputs :
          SwapFeeBreakdown(swapUsd, slippageBps)
    \/ CollateralUsdNeededForRepay

SpecFee == InitFee /\ [][NextFee]_vars

---------------------------------------------------------------------------
\* Properties of the fee and slippage model.

\* C9 as stated: for every amount and every slippage, the amount needed to
\* net what the breakdown of the amount nets is the amount.
C9_AsStated ==
    fee.op = "needed" => fee.collateralUsdNeeded = fee.swapUsd

\* C9 as amended: for every amount above 0 and every slippage other than
\* 10000 bps (where the multiplier is 0 and nothing is received), the amount
\* needed to net what the breakdown of the amount nets is the amount; at
\* 10000 bps it is not a number.
C9_RoundTrip ==
    fee.op = "needed" =>
        IF OrDefault(fee.slippageBps) # 10000
        THEN fee.collateralUsdNeeded = fee.swapUsd
        ELSE fee.breakdown.receiveUsd = Zero /\ fee.collateralUsdNeeded = Null

\* a round trip at a slippage that is neither the default nor degenerate
C9_Witness ==
    /\ fee.op = "needed"
    /\ fee.slippageBps = <<300>>
    /\ fee.swapUsd = Cents(1250)
    /\ fee.collateralUsdNeeded = Cents(1250)

\* C10: the breakdown of a notional amount has total fee notional x 30 /
\* 10000, slippage (notional - fee) x bps / 10000 and net amount notional -
\* fee - slippage, with 150 for bps when no slippage is supplied; the net
\* amount is the notional times getSwapFeeMultiplierForSlippageBps(bps).
C10_Breakdown ==
    fee.op = "breakdown" =>
        LET bps == IF fee.slippageBps = << >> THEN 150 ELSE fee.slippageBps[1]
            notional == fee.swapUsd
            totalFee == Quot(Mul(notional, Num(30)), Num(10000))
            slippage == Quot(Mul(Sub(notional, totalFee), Num(bps)), Num(10000))
        IN  /\ fee.breakdown.totalFeeUsd = totalFee
            /\ fee.breakdown.slippageUsd = slippage
            /\ fee.breakdown.receiveUsd = Sub(Sub(notional, totalFee), slippage)
            /\ fee.breakdown.slippageBps = bps
            /\ fee.breakdown.receiveUsd =
                  Mul(notional, getSwapFeeMultiplierForSlippageBps(bps))

\* a breakdown computed with no slippage supplied
C10_Witness ==
    /\ fee.op = "breakdown"
    /\ fee.slippageBps = << >>
    /\ fee.swapUsd = Num(5000)
    /\ fee.breakdown.slippageBps = 150
    /\ fee.breakdown.receiveUsd = Norm(4910225, 1000)

---------------------------------------------------------------------------
\* The position simulator: line items added and removed, swaps, repayments.

\* the number of simulation operations applied in one session
MaxOperations == 2

\* `x || 1` on a price
OrOne(x) == IF x = Zero \/ x = Null THEN One ELSE x

\* availableAssets.find on the symbol: the index of the asset, 0 for undefined
FindAsset(assets, symbol) ==
    IF \E k \in 1..Len(assets) : assets[k].symbol = symbol
    THEN CHOOSE k \in 1..Len(assets) :
            /\ assets[k].symbol = symbol
            /\ \A j \in 1..(k - 1) : assets[j].symbol # symbol
    ELSE 0

\* `asset.isNewlyAddedBySimUser = true` on the catalog's asset k
Flagged(assets, k) == [assets EXCEPT ![k].isNewlyAddedBySimUser = TRUE]

\* `workingData.userBorrowsData.merge([borrow])`
WithBorrowAsset(data, asset) ==
    [data EXCEPT !.userBorrowsData = Append(@, BorrowItem(asset, Zero))]

\* `workingData.userReservesData.merge([reserve])`
WithReserveAsset(data, asset) ==
    [data EXCEPT !.userReservesData =
        Append(@, ReserveItem(asset, Zero, asset.usageAsCollateralEnabled))]

\* The store as a handler sees and leaves it: the working position and the
\* catalog.
Store(data, assets) == [data |-> data, assets |-> assets]

\* addBorrowAsset for the catalog's asset k
BorrowAssetAdded(st, k) ==
    Store(WithBorrowAsset(st.data, Flagged(st.assets, k)[k]), Flagged(st.assets, k))

\* addReserveAsset for the catalog's asset k
ReserveAssetAdded(st, k) ==
    Store(WithReserveAsset(st.data, Flagged(st.assets, k)[k]), Flagged(st.assets, k))

\* setBorrowedAssetQuantity, from the position it finds to the one it leaves
BorrowedAssetQuantitySet(data, symbol, quantity, marketRefPrice) ==
    LET k == FindIndex(data.userBorrowsData, symbol)
    IN  IF k = 0 THEN updateDerivedHealthFactorData(data, marketRefPrice)
        ELSE IF data.userBorrowsData[k].totalBorrows = quantity THEN data
        ELSE updateDerivedHealthFactorData(
                [data EXCEPT !.userBorrowsData[k].totalBorrows = quantity],
                marketRefPrice)

\* setReserveAssetQuantity, from the position it finds to the one it leaves
ReserveAssetQuantitySet(data, symbol, quantity, marketRefPrice) ==
    LET k == FindIndex(data.userReservesData, symbol)
    IN  IF k = 0 THEN updateDerivedHealthFactorData(data, marketRefPrice)
        ELSE IF data.userReservesData[k].underlyingBalance = quantity THEN data
        ELSE updateDerivedHealthFactorData(
                [data EXCEPT !.userReservesData[k].underlyingBalance = quantity],
                marketRefPrice)

\* `targetExisting ? targetExisting.totalBorrows : 0`
ExistingBorrows(data, symbol) ==
    IF FindIndex(data.userBorrowsData, symbol) = 0 THEN Zero
    ELSE data.userBorrowsData[FindIndex(data.userBorrowsData, symbol)].totalBorrows

\* `targetExisting ? targetExisting.underlyingBalance : 0`
ExistingBalance(data, symbol) ==
    IF FindIndex(data.userReservesData, symbol) = 0 THEN Zero
    ELSE data.userReservesData[FindIndex(data.userReservesData, symbol)].underlyingBalance

\* SwapTargetQuantity without the fee and slippage multiplier
SwapTargetQuantityNoFee(swapUsd, mult, targetPrice) ==
    Quot(swapUsd, OrOne(targetPrice))

\* `(swapUsd * mult) / targetPrice`, targetPrice being `priceInUSD || 1`
SwapTargetQuantity(swapUsd, mult, targetPrice) ==
    Quot(Mul(swapUsd, mult), OrOne(targetPrice))

\* the handler is applied to the store and leaves it as st
Applied(st) ==
    /\ solver.pc = "idle"
    /\ workingData' = st.data
    /\ availableAssets' = CatalogAfter(st.data, st.assets)
    /\ passes' = 0
    /\ locals' = NoLocals
    /\ operations' = operations + 1
    /\ UNCHANGED <<marketReferenceCurrencyPriceInUSD, solver, fee, fetchedData, isRefreshActive, inFlight>>

\* the handler `op` is called with `args` and throws a TypeError
Thrown(op, args) ==
    call' = [op |-> op, args |-> args, threw |-> TRUE, result |-> << >>]

\* `asset.isNewlyAddedBySimUser = true` throws when find returned undefined
addBorrowAsset(symbol) ==
    /\ operations < MaxOperations
    /\ IF FindAsset(availableAssets, symbol) = 0
       THEN /\ Thrown("addBorrowAsset", [symbol |-> symbol])
            /\ Applied(Store(workingData, availableAssets))
       ELSE /\ Called("addBorrowAsset", [symbol |-> symbol])
            /\ Applied(BorrowAssetAdded(Store(workingData, availableAssets),
                                        FindAsset(availableAssets, symbol)))

addReserveAsset(symbol) ==
    /\ operations < MaxOperations
    /\ IF FindAsset(availableAssets, symbol) = 0
       THEN /\ Thrown("addReserveAsset", [symbol |-> symbol])
            /\ Applied(Store(workingData, availableAssets))
       ELSE /\ Called("addReserveAsset", [symbol |-> symbol])
            /\ Applied(ReserveAssetAdded(Store(workingData, availableAssets),
                                         FindAsset(availableAssets, symbol)))

\* `p.splice(itemIndex, 1)`, itemIndex counted from 1 here and 0 standing for
\* the -1 of findIndex: splice(-1, 1) removes the last element
Splice(items, itemIndex) ==
    IF Len(items) = 0 THEN items
    ELSE IF itemIndex = 0 THEN SubSeq(items, 1, Len(items) - 1)
    ELSE SubSeq(items, 1, itemIndex - 1) \o SubSeq(items, itemIndex + 1, Len(items))

\* the position removeAsset hands to updateAllDerivedHealthFactorData
Removed(data, symbol, assetType) ==
    IF assetType = "RESERVE"
    THEN [data EXCEPT !.userReservesData =
            Splice(@, FindIndex(data.userReservesData, symbol))]
    ELSE [data EXCEPT !.userBorrowsData =
            Splice(@, FindIndex(data.userBorrowsData, symbol))]

removeAsset(symbol, assetType) ==
    /\ operations < MaxOperations
    /\ Called("removeAsset", [symbol |-> symbol, assetType |-> assetType])
    /\ Applied(Store(updateDerivedHealthFactorData(
                        Removed(workingData, symbol, assetType),
                        marketReferenceCurrencyPriceInUSD),
                     availableAssets))

\* the two setters that end applyLoopingStateToPosition
LoopingStateSet(st, collateralSymbol, collateralAmount, debtSymbol, debtAmount, marketRefPrice) ==
    Store(BorrowedAssetQuantitySet(
              ReserveAssetQuantitySet(st.data, collateralSymbol, collateralAmount,
                                      marketRefPrice),
              debtSymbol, debtAmount, marketRefPrice),
          st.assets)

\* `if (!hasReserve) addReserveAsset(collateralSymbol)`, the asset listed
LoopingReserve(st, collateralSymbol) ==
    IF FindIndex(st.data.userReservesData, collateralSymbol) # 0 THEN st
    ELSE ReserveAssetAdded(st, FindAsset(st.assets, collateralSymbol))

\* `if (!hasBorrow) addBorrowAsset(debtSymbol)`, the asset listed
LoopingBorrow(st, debtSymbol) ==
    IF FindIndex(st.data.userBorrowsData, debtSymbol) # 0 THEN st
    ELSE BorrowAssetAdded(st, FindAsset(st.assets, debtSymbol))

\* addReserveAsset or addBorrowAsset would be called with a symbol that is
\* not listed
LoopingReserveThrows(data, assets, collateralSymbol) ==
    FindIndex(data.userReservesData, collateralSymbol) = 0
        /\ FindAsset(assets, collateralSymbol) = 0

LoopingBorrowThrows(data, assets, debtSymbol) ==
    FindIndex(data.userBorrowsData, debtSymbol) = 0
        /\ FindAsset(assets, debtSymbol) = 0

applyLoopingStateToPosition(collateralSymbol, collateralAmount, debtSymbol, debtAmount) ==
    /\ operations < MaxOperations
    /\ IF LoopingReserveThrows(workingData, availableAssets, collateralSymbol)
       THEN /\ Thrown("applyLoopingStateToPosition",
                      [collateralSymbol |-> collateralSymbol,
                       collateralAmount |-> collateralAmount,
                       debtSymbol |-> debtSymbol, debtAmount |-> debtAmount])
            /\ Applied(Store(workingData, availableAssets))
       ELSE IF LoopingBorrowThrows(workingData, availableAssets, debtSymbol)
       THEN /\ Thrown("applyLoopingStateToPosition",
                      [collateralSymbol |-> collateralSymbol,
                       collateralAmount |-> collateralAmount,
                       debtSymbol |-> debtSymbol, debtAmount |-> debtAmount])
            /\ Applied(LoopingReserve(Store(workingData, availableAssets),
                                      collateralSymbol))
       ELSE /\ Called("applyLoopingStateToPosition",
                      [collateralSymbol |-> collateralSymbol,
                       collateralAmount |-> collateralAmount,
                       debtSymbol |-> debtSymbol, debtAmount |-> debtAmount])
            /\ Applied(LoopingStateSet(
                          LoopingBorrow(LoopingReserve(Store(workingData, availableAssets),
                                                       collateralSymbol),
                                        debtSymbol),
                          collateralSymbol, collateralAmount, debtSymbol, debtAmount,
                          marketReferenceCurrencyPriceInUSD))

\* What a swap or a repayment has decided when it reaches its setters:
\* nothing (a guard returned), or the new quantities of two line items.
NoOutcome == [kind |-> "none"]

\* simulateSwapDebt past its two guards, sourceItem and targetAsset found
SwapDebtOf(data, sourceItem, targetAsset, percentage, mult) ==
    [kind |-> "swap",
     sourceSymbol |-> sourceItem.asset.symbol,
     targetSymbol |-> targetAsset.symbol,
     newSourceQty |-> Mul(sourceItem.totalBorrows, Sub(One, percentage)),
     newTargetQty |->
        Add(ExistingBorrows(data, targetAsset.symbol),
            SwapTargetQuantity(
                Mul(Mul(sourceItem.totalBorrows, sourceItem.asset.priceInUSD),
                    percentage),
                mult, targetAsset.priceInUSD))]

\* the first guard of simulateSwapDebt
SwapDebtSourceMissing(data, sourceSymbol, targetSymbol) ==
    \/ FindIndex(data.userBorrowsData, sourceSymbol) = 0
    \/ Le(data.userBorrowsData[FindIndex(data.userBorrowsData, sourceSymbol)].totalBorrows,
          Zero)
    \/ sourceSymbol = targetSymbol

\* SwapDebtTargetMissing without the isBorrowableAsset test
SwapDebtTargetUnlisted(assets, targetSymbol) ==
    FindAsset(assets, targetSymbol) = 0

\* the second guard of simulateSwapDebt
SwapDebtTargetMissing(assets, targetSymbol) ==
    \/ FindAsset(assets, targetSymbol) = 0
    \/ ~isBorrowableAsset(assets[FindAsset(assets, targetSymbol)])

\* simulateSwapDebt and getProjectedHealthFactorAfterSwapDebt up to the
\* quantities they write
SwapDebtOutcome(data, assets, sourceSymbol, targetSymbol, percentage, slippageBps) ==
    IF SwapDebtSourceMissing(data, sourceSymbol, targetSymbol) THEN NoOutcome
    ELSE IF SwapDebtTargetMissing(assets, targetSymbol) THEN NoOutcome
    ELSE SwapDebtOf(data,
                    data.userBorrowsData[FindIndex(data.userBorrowsData, sourceSymbol)],
                    assets[FindAsset(assets, targetSymbol)],
                    percentage,
                    getSwapFeeMultiplierForSlippageBps(OrDefault(slippageBps)))

\* `if (!targetExisting) addBorrowAsset(targetSymbol)`
SwapDebtTarget(st, targetSymbol) ==
    IF FindIndex(st.data.userBorrowsData, targetSymbol) # 0 THEN st
    ELSE BorrowAssetAdded(st, FindAsset(st.assets, targetSymbol))

\* two setBorrowedAssetQuantity calls in a row
BorrowedAssetQuantitiesSet(st, firstSymbol, firstQty, secondSymbol, secondQty, marketRefPrice) ==
    Store(BorrowedAssetQuantitySet(
              BorrowedAssetQuantitySet(st.data, firstSymbol, firstQty, marketRefPrice),
              secondSymbol, secondQty, marketRefPrice),
          st.assets)

\* the tail of simulateSwapDebt
SwapDebtApplied(st, outcome, marketRefPrice) ==
    IF outcome.kind = "none" THEN st
    ELSE BorrowedAssetQuantitiesSet(SwapDebtTarget(st, outcome.targetSymbol),
                                    outcome.sourceSymbol, outcome.newSourceQty,
                                    outcome.targetSymbol, outcome.newTargetQty,
                                    marketRefPrice)

\* simulateSwapDebt, from the store it finds to the store it leaves
SwapDebt(st, sourceSymbol, targetSymbol, percentage, slippageBps, marketRefPrice) ==
    SwapDebtApplied(st,
                    SwapDebtOutcome(st.data, st.assets, sourceSymbol, targetSymbol,
                                    percentage, slippageBps),
                    marketRefPrice)

simulateSwapDebt(sourceSymbol, targetSymbol, percentage, slippageBps) ==
    /\ operations < MaxOperations
    /\ Called("simulateSwapDebt",
              [sourceSymbol |-> sourceSymbol, targetSymbol |-> targetSymbol,
               percentage |-> percentage, slippageBps |-> slippageBps])
    /\ Applied(SwapDebt(Store(workingData, availableAssets), sourceSymbol, targetSymbol,
                        percentage, slippageBps, marketReferenceCurrencyPriceInUSD))

\* SourceUnitsToSwap without the cap of the fixed amount at the balance
SourceUnitsToSwapUncapped(underlyingBalance, percentage, swapAmount) ==
    IF swapAmount # << >> /\ Gt(swapAmount[1], Zero)
    THEN swapAmount[1]
    ELSE Mul(underlyingBalance, percentage)

\* sourceUnitsToSwap; swapAmount is << >> for null or undefined
SourceUnitsToSwap(underlyingBalance, percentage, swapAmount) ==
    IF swapAmount # << >> /\ Gt(swapAmount[1], Zero)
    THEN Min(swapAmount[1], underlyingBalance)
    ELSE Mul(underlyingBalance, percentage)

\* simulateSwapCollateral past its guards, given sourceUnitsToSwap
SwapCollateralOf(data, sourceItem, targetAsset, sourceUnitsToSwap, mult) ==
    [kind |-> "swap",
     sourceSymbol |-> sourceItem.asset.symbol,
     targetSymbol |-> targetAsset.symbol,
     newSourceQty |-> Sub(sourceItem.underlyingBalance, sourceUnitsToSwap),
     newTargetQty |->
        Add(ExistingBalance(data, targetAsset.symbol),
            SwapTargetQuantity(Mul(sourceUnitsToSwap, sourceItem.asset.priceInUSD),
                               mult, targetAsset.priceInUSD))]

\* the first guard of simulateSwapCollateral
SwapCollateralSourceMissing(data, sourceSymbol, targetSymbol) ==
    \/ FindIndex(data.userReservesData, sourceSymbol) = 0
    \/ Le(data.userReservesData[FindIndex(data.userReservesData, sourceSymbol)].underlyingBalance,
          Zero)
    \/ sourceSymbol = targetSymbol

\* the second guard of simulateSwapCollateral
SwapCollateralTargetMissing(assets, targetSymbol) ==
    \/ FindAsset(assets, targetSymbol) = 0
    \/ ~isSuppliableAsset(assets[FindAsset(assets, targetSymbol)])

SwapCollateralFrom(data, sourceItem, targetAsset, percentage, slippageBps, swapAmount) ==
    SwapCollateralOf(data, sourceItem, targetAsset,
                     SourceUnitsToSwap(sourceItem.underlyingBalance, percentage, swapAmount),
                     getSwapFeeMultiplierForSlippageBps(OrDefault(slippageBps)))

\* simulateSwapCollateral and getProjectedHealthFactorAfterSwapCollateral up
\* to the quantities they write
SwapCollateralOutcome(data, assets, sourceSymbol, targetSymbol, percentage, slippageBps, swapAmount) ==
    IF SwapCollateralSourceMissing(data, sourceSymbol, targetSymbol) THEN NoOutcome
    ELSE IF SwapCollateralTargetMissing(assets, targetSymbol) THEN NoOutcome
    ELSE SwapCollateralFrom(
            data,
            data.userReservesData[FindIndex(data.userReservesData, sourceSymbol)],
            assets[FindAsset(assets, targetSymbol)],
            percentage, slippageBps, swapAmount)

\* `if (!targetExisting) addReserveAsset(targetSymbol)`
SwapCollateralTarget(st, targetSymbol) ==
    IF FindIndex(st.data.userReservesData, targetSymbol) # 0 THEN st
    ELSE ReserveAssetAdded(st, FindAsset(st.assets, targetSymbol))

\* two setReserveAssetQuantity calls in a row
ReserveAssetQuantitiesSet(st, firstSymbol, firstQty, secondSymbol, secondQty, marketRefPrice) ==
    Store(ReserveAssetQuantitySet(
              ReserveAssetQuantitySet(st.data, firstSymbol, firstQty, marketRefPrice),
              secondSymbol, secondQty, marketRefPrice),
          st.assets)

\* the tail of simulateSwapCollateral
SwapCollateralApplied(st, outcome, marketRefPrice) ==
    IF outcome.kind = "none" THEN st
    ELSE ReserveAssetQuantitiesSet(SwapCollateralTarget(st, outcome.targetSymbol),
                                   outcome.sourceSymbol, outcome.newSourceQty,
                                   outcome.targetSymbol, outcome.newTargetQty,
                                   marketRefPrice)

\* simulateSwapCollateral, from the store it finds to the store it leaves
SwapCollateral(st, sourceSymbol, targetSymbol, percentage, slippageBps, swapAmount, marketRefPrice) ==
    SwapCollateralApplied(st,
                          SwapCollateralOutcome(st.data, st.assets, sourceSymbol,
                                                targetSymbol, percentage, slippageBps,
                                                swapAmount),
                          marketRefPrice)

simulateSwapCollateral(sourceSymbol, targetSymbol, percentage, slippageBps, swapAmount) ==
    /\ operations < MaxOperations
    /\ Called("simulateSwapCollateral",
              [sourceSymbol |-> sourceSymbol, targetSymbol |-> targetSymbol,
               percentage |-> percentage, slippageBps |-> slippageBps,
               swapAmount |-> swapAmount])
    /\ Applied(SwapCollateral(Store(workingData, availableAssets), sourceSymbol,
                              targetSymbol, percentage, slippageBps, swapAmount,
                              marketReferenceCurrencyPriceInUSD))

\* `params.liquidationBonusPct / 100` when it is given and positive, else 0
Bonus(liquidationBonusPct) ==
    IF liquidationBonusPct # << >> /\ Gt(liquidationBonusPct[1], Zero)
    THEN Quot(liquidationBonusPct[1], Num(100))
    ELSE Zero

\* DebtReduceUnitsTarget without the cap of the fixed amount at the debt
DebtReduceUnitsTargetUncapped(totalBorrows, percentage, collateralRepayAmount) ==
    IF collateralRepayAmount # << >> /\ Gt(collateralRepayAmount[1], Zero)
    THEN collateralRepayAmount[1]
    ELSE Mul(IF percentage = << >> THEN Zero ELSE percentage[1], totalBorrows)

\* debtReduceUnitsTarget
DebtReduceUnitsTarget(totalBorrows, percentage, collateralRepayAmount) ==
    IF collateralRepayAmount # << >> /\ Gt(collateralRepayAmount[1], Zero)
    THEN Min(collateralRepayAmount[1], totalBorrows)
    ELSE Mul(IF percentage = << >> THEN Zero ELSE percentage[1], totalBorrows)

\* actualCollateralUnitsUsed of the bonus branch
SeizedUnits(debtReduceUsdTarget, bonus, collateralPrice, underlyingBalance) ==
    Min(Quot(Mul(debtReduceUsdTarget, Add(One, bonus)), collateralPrice),
        underlyingBalance)

\* DebtReducedBySeizure taking the fee and slippage multiplier as well
DebtReducedBySeizureWithFee(units, collateralPrice, bonus, debtPrice, totalBorrows) ==
    Min(Quot(Quot(Mul(Mul(units, collateralPrice), SWAP_FEE_MULTIPLIER),
                  Add(One, bonus)), debtPrice),
        totalBorrows)

\* actualDebtReduceUnits of the bonus branch
DebtReducedBySeizure(units, collateralPrice, bonus, debtPrice, totalBorrows) ==
    Min(Quot(Quot(Mul(units, collateralPrice), Add(One, bonus)), debtPrice),
        totalBorrows)

\* actualCollateralUnitsUsed of the fee branch
SoldUnits(debtReduceUsdTarget, mult, collateralPrice, underlyingBalance) ==
    Min(Quot(Quot(debtReduceUsdTarget, mult), collateralPrice), underlyingBalance)

\* DebtReducedBySale without the fee and slippage multiplier
DebtReducedBySaleNoFee(units, collateralPrice, mult, debtPrice, totalBorrows) ==
    Min(Quot(Mul(units, collateralPrice), debtPrice), totalBorrows)

\* actualDebtReduceUnits of the fee branch
DebtReducedBySale(units, collateralPrice, mult, debtPrice, totalBorrows) ==
    Min(Quot(Mul(Mul(units, collateralPrice), mult), debtPrice), totalBorrows)

\* ManualRepayQuantity without the floor at 0
ManualRepayQuantityNoFloor(totalBorrows, manualAmount) ==
    Sub(totalBorrows, Max(Zero, manualAmount))

\* newQty of the manual mode
ManualRepayQuantity(totalBorrows, manualAmount) ==
    Max(Zero, Sub(totalBorrows, Max(Zero, manualAmount)))

\* newCollateralQty and newDebtQty
RepayUsed(debtItem, collateralItem, actualCollateralUnitsUsed, actualDebtReduceUnits) ==
    [kind |-> "collateral",
     debtSymbol |-> debtItem.asset.symbol,
     collateralSymbol |-> collateralItem.asset.symbol,
     actualCollateralUnitsUsed |-> actualCollateralUnitsUsed,
     actualDebtReduceUnits |-> actualDebtReduceUnits,
     newCollateralQty |->
        Max(Zero, Sub(collateralItem.underlyingBalance, actualCollateralUnitsUsed)),
     newDebtQty |-> Max(Zero, Sub(debtItem.totalBorrows, actualDebtReduceUnits))]

\* the bonus branch, given the units seized
RepaySeized(debtItem, collateralItem, units, bonus) ==
    RepayUsed(debtItem, collateralItem, units,
              DebtReducedBySeizure(units, OrOne(collateralItem.asset.priceInUSD), bonus,
                                   OrOne(debtItem.asset.priceInUSD),
                                   debtItem.totalBorrows))

\* the fee branch, given the units sold
RepaySold(debtItem, collateralItem, units, mult) ==
    RepayUsed(debtItem, collateralItem, units,
              DebtReducedBySale(units, OrOne(collateralItem.asset.priceInUSD), mult,
                                OrOne(debtItem.asset.priceInUSD),
                                debtItem.totalBorrows))

\* the collateral mode past its guard, given debtReduceUsdTarget
RepayTarget(debtItem, collateralItem, debtReduceUsdTarget, bonus, slippageBps) ==
    IF Gt(bonus, Zero)
    THEN RepaySeized(debtItem, collateralItem,
                     SeizedUnits(debtReduceUsdTarget, bonus,
                                 OrOne(collateralItem.asset.priceInUSD),
                                 collateralItem.underlyingBalance),
                     bonus)
    ELSE RepaySold(debtItem, collateralItem,
                   SoldUnits(debtReduceUsdTarget,
                             getSwapFeeMultiplierForSlippageBps(OrDefault(slippageBps)),
                             OrOne(collateralItem.asset.priceInUSD),
                             collateralItem.underlyingBalance),
                   getSwapFeeMultiplierForSlippageBps(OrDefault(slippageBps)))

\* the collateral mode, given debtReduceUnitsTarget; c is the index of the
\* collateral item, 0 when there is none
RepayFromCollateral(data, debtItem, c, debtReduceUnitsTarget, params) ==
    IF c = 0 THEN NoOutcome
    ELSE IF Le(data.userReservesData[c].underlyingBalance, Zero) THEN NoOutcome
    ELSE IF Le(debtReduceUnitsTarget, Zero) THEN NoOutcome
    ELSE RepayTarget(debtItem, data.userReservesData[c],
                     Mul(debtReduceUnitsTarget, OrOne(debtItem.asset.priceInUSD)),
                     Bonus(params.liquidationBonusPct), params.slippageBps)

\* simulateRepayDebt past its first guard
RepayOf(data, debtItem, params) ==
    IF params.mode = "manual" /\ params.manualAmount # << >>
    THEN [kind |-> "manual",
          debtSymbol |-> params.debtSymbol,
          newQty |-> ManualRepayQuantity(debtItem.totalBorrows, params.manualAmount[1])]
    ELSE IF /\ params.mode = "collateral"
            /\ params.collateralSymbol # << >>
            /\ \/ params.percentage # << >>
               \/ /\ params.collateralRepayAmount # << >>
                  /\ Gt(params.collateralRepayAmount[1], Zero)
    THEN RepayFromCollateral(
            data, debtItem,
            FindIndex(data.userReservesData, params.collateralSymbol[1]),
            DebtReduceUnitsTarget(debtItem.totalBorrows, params.percentage,
                                  params.collateralRepayAmount),
            params)
    ELSE NoOutcome

\* the first guard of simulateRepayDebt
RepayDebtMissing(data, debtSymbol) ==
    \/ FindIndex(data.userBorrowsData, debtSymbol) = 0
    \/ Le(data.userBorrowsData[FindIndex(data.userBorrowsData, debtSymbol)].totalBorrows,
          Zero)

\* simulateRepayDebt and getProjectedHealthFactorAfterRepay up to the
\* quantities they write
RepayOutcome(data, params) ==
    IF RepayDebtMissing(data, params.debtSymbol) THEN NoOutcome
    ELSE RepayOf(data,
                 data.userBorrowsData[FindIndex(data.userBorrowsData, params.debtSymbol)],
                 params)

\* the tail of each mode of simulateRepayDebt
RepayApplied(st, outcome, marketRefPrice) ==
    IF outcome.kind = "none" THEN st
    ELSE IF outcome.kind = "manual"
    THEN Store(BorrowedAssetQuantitySet(st.data, outcome.debtSymbol, outcome.newQty,
                                        marketRefPrice),
               st.assets)
    ELSE Store(BorrowedAssetQuantitySet(
                  ReserveAssetQuantitySet(st.data, outcome.collateralSymbol,
                                          outcome.newCollateralQty, marketRefPrice),
                  outcome.debtSymbol, outcome.newDebtQty, marketRefPrice),
               st.assets)

\* simulateRepayDebt, from the store it finds to the store it leaves
Repay(st, params, marketRefPrice) ==
    RepayApplied(st, RepayOutcome(st.data, params), marketRefPrice)

simulateRepayDebt(params) ==
    /\ operations < MaxOperations
    /\ Called("simulateRepayDebt", params)
    /\ Applied(Repay(Store(workingData, availableAssets), params,
                     marketReferenceCurrencyPriceInUSD))

\* the parameter objects of simulateRepayDebt
ManualRepay(debtSymbol, manualAmount) ==
    [debtSymbol |-> debtSymbol, mode |-> "manual", manualAmount |-> manualAmount,
     collateralSymbol |-> << >>, percentage |-> << >>,
     collateralRepayAmount |-> << >>, slippageBps |-> << >>,
     liquidationBonusPct |-> << >>]

CollateralRepay(debtSymbol, collateralSymbol, percentage, collateralRepayAmount, slippageBps, liquidationBonusPct) ==
    [debtSymbol |-> debtSymbol, mode |-> "collateral", manualAmount |-> << >>,
     collateralSymbol |-> collateralSymbol, percentage |-> percentage,
     collateralRepayAmount |-> collateralRepayAmount, slippageBps |-> slippageBps,
     liquidationBonusPct |-> liquidationBonusPct]

\* `setBorrowedAssetQuantity(symbol, quantity)` as the last call of a handler
BorrowedQuantityApplied(st, symbol, quantity, marketRefPrice) ==
    Store(BorrowedAssetQuantitySet(st.data, symbol, quantity, marketRefPrice),
          st.assets)

\* handleApply of the borrow-more dialog past its guard: symbol is one of
\* the borrowable options, additionalUnits is positive
BorrowMore(st, symbol, additionalUnits, marketRefPrice) ==
    IF FindIndex(st.data.userBorrowsData, symbol) # 0
    THEN BorrowedQuantityApplied(st, symbol,
                                 Add(ExistingBorrows(st.data, symbol), additionalUnits),
                                 marketRefPrice)
    ELSE BorrowedQuantityApplied(BorrowAssetAdded(st, FindAsset(st.assets, symbol)),
                                 symbol, additionalUnits, marketRefPrice)

\* `disabled={!canApply}` on the Apply button of the borrow-more dialog:
\* selectedAsset is the catalog's asset of the symbol, priceInUSD its price,
\* availableBorrowsUSD the working position's headroom floored at 0
canApply(data, assets, symbol, amount) ==
    /\ symbol # << >>
    /\ FindAsset(assets, symbol[1]) # 0
    /\ Gt(amount, Zero)
    /\ Le(Mul(amount, assets[FindAsset(assets, symbol[1])].priceInUSD),
          Max(data.availableBorrowsUSD, Zero))

\* Apply pressed in the borrow-more dialog; symbol is << >> while nothing is
\* selected, amount is what the amount field parses to. A disabled button
\* does not call handleApply.
handleApply(symbol, amount) ==
    /\ operations < MaxOperations
    /\ Called("handleApply", [symbol |-> symbol, amount |-> amount])
    /\ IF ~canApply(workingData, availableAssets, symbol, amount)
       THEN Applied(Store(workingData, availableAssets))
       ELSE IF symbol = << >> THEN Applied(Store(workingData, availableAssets))
       ELSE IF Le(amount, Zero) THEN Applied(Store(workingData, availableAssets))
       ELSE Applied(BorrowMore(Store(workingData, availableAssets), symbol[1], amount,
                               marketReferenceCurrencyPriceInUSD))

\* `{ healthFactor: null, liquidationScenario: [] }`
NullProjection == [healthFactor |-> Null, liquidationScenario |-> << >>]

ProjectionNames ==
    {"getProjectedHealthFactorAfterSwapDebt", "getProjectedHealthFactorAfterSwapCollateral",
     "getProjectedHealthFactorAfterRepay", "getProjectedHealthFactorAfterBorrow"}

\* a projected variant that works on the position itself instead of a clone
ProjectingInPlace(op, args, guarded, updated) ==
    /\ operations < MaxOperations
    /\ solver.pc = "idle"
    /\ operations' = operations + 1
    /\ IF guarded
       THEN /\ call' = [op |-> op, args |-> args, threw |-> FALSE,
                        result |-> NullProjection]
            /\ UNCHANGED <<solver, workingData>>
       ELSE /\ call' = [op |-> op, args |-> args, threw |-> FALSE, result |-> << >>]
            /\ solver' = ScenarioEntered(updated)
            /\ workingData' = updated
    /\ UNCHANGED <<marketReferenceCurrencyPriceInUSD, passes, locals, fee, fetchedData,
                   isRefreshActive, inFlight, availableAssets>>

\* A projected variant: it returns the null projection when a guard returned,
\* else it calls getCalculatedLiquidationScenario on `updated`; the position
\* and the catalog are not written.
Projecting(op, args, guarded, updated) ==
    /\ operations < MaxOperations
    /\ solver.pc = "idle"
    /\ operations' = operations + 1
    /\ IF guarded
       THEN /\ call' = [op |-> op, args |-> args, threw |-> FALSE,
                        result |-> NullProjection]
            /\ UNCHANGED solver
       ELSE /\ call' = [op |-> op, args |-> args, threw |-> FALSE, result |-> << >>]
            /\ solver' = ScenarioEntered(updated)
    /\ UNCHANGED <<workingData, marketReferenceCurrencyPriceInUSD, passes, locals, fee, fetchedData, isRefreshActive, inFlight,
                   availableAssets>>

\* `return { healthFactor: updated.healthFactor ?? null, liquidationScenario }`
\* once getCalculatedLiquidationScenario has returned
ReturnProjection ==
    /\ solver.pc = "done"
    /\ call.op \in ProjectionNames
    /\ call.result = << >>
    /\ call' = [call EXCEPT !.result =
                  [healthFactor |-> solver.input.healthFactor,
                   liquidationScenario |-> solver.result]]
    /\ solver' = IdleSolver
    /\ UNCHANGED <<workingData, marketReferenceCurrencyPriceInUSD, passes, locals, fee, fetchedData, isRefreshActive, inFlight,
                   availableAssets, operations>>

\* the clone of the swap-debt projection with its two quantities written
SwapDebtClone(clone, outcome, targetAsset) ==
    IF FindIndex(clone.userBorrowsData, outcome.targetSymbol) # 0
    THEN [clone EXCEPT
            !.userBorrowsData[FindIndex(clone.userBorrowsData, outcome.sourceSymbol)]
                .totalBorrows = outcome.newSourceQty,
            !.userBorrowsData[FindIndex(clone.userBorrowsData, outcome.targetSymbol)]
                .totalBorrows = outcome.newTargetQty]
    ELSE [clone EXCEPT
            !.userBorrowsData =
                Append([@ EXCEPT ![FindIndex(clone.userBorrowsData, outcome.sourceSymbol)]
                                    .totalBorrows = outcome.newSourceQty],
                       BorrowItem([targetAsset EXCEPT !.isNewlyAddedBySimUser = TRUE],
                                  outcome.newTargetQty))]

SwapDebtProjected(data, assets, outcome, marketRefPrice) ==
    updateDerivedHealthFactorData(
        SwapDebtClone(JsonClone(data), outcome,
                      assets[FindAsset(assets, outcome.targetSymbol)]),
        marketRefPrice)

ProjectingSwapDebt(args, outcome) ==
    Projecting("getProjectedHealthFactorAfterSwapDebt", args, outcome.kind = "none",
               SwapDebtProjected(workingData, availableAssets, outcome,
                                 marketReferenceCurrencyPriceInUSD))

getProjectedHealthFactorAfterSwapDebt(sourceSymbol, targetSymbol, percentage, slippageBps) ==
    ProjectingSwapDebt([sourceSymbol |-> sourceSymbol, targetSymbol |-> targetSymbol,
                        percentage |-> percentage, slippageBps |-> slippageBps],
                       SwapDebtOutcome(workingData, availableAssets, sourceSymbol,
                                       targetSymbol, percentage, slippageBps))

\* the clone of the swap-collateral projection with its two quantities written
SwapCollateralClone(clone, outcome, targetAsset) ==
    IF FindIndex(clone.userReservesData, outcome.targetSymbol) # 0
    THEN [clone EXCEPT
            !.userReservesData[FindIndex(clone.userReservesData, outcome.sourceSymbol)]
                .underlyingBalance = outcome.newSourceQty,
            !.userReservesData[FindIndex(clone.userReservesData, outcome.targetSymbol)]
                .underlyingBalance = outcome.newTargetQty]
    ELSE [clone EXCEPT
            !.userReservesData =
                Append([@ EXCEPT ![FindIndex(clone.userReservesData, outcome.sourceSymbol)]
                                    .underlyingBalance = outcome.newSourceQty],
                       ReserveItem([targetAsset EXCEPT !.isNewlyAddedBySimUser = TRUE],
                                   outcome.newTargetQty,
                                   targetAsset.usageAsCollateralEnabled))]

SwapCollateralProjected(data, assets, outcome, marketRefPrice) ==
    updateDerivedHealthFactorData(
        SwapCollateralClone(JsonClone(data), outcome,
                            assets[FindAsset(assets, outcome.targetSymbol)]),
        marketRefPrice)

ProjectingSwapCollateral(args, outcome) ==
    Projecting("getProjectedHealthFactorAfterSwapCollateral", args,
               outcome.kind = "none",
               SwapCollateralProjected(workingData, availableAssets, outcome,
                                       marketReferenceCurrencyPriceInUSD))

getProjectedHealthFactorAfterSwapCollateral(sourceSymbol, targetSymbol, percentage, slippageBps, swapAmount) ==
    ProjectingSwapCollateral(
        [sourceSymbol |-> sourceSymbol, targetSymbol |-> targetSymbol,
         percentage |-> percentage, slippageBps |-> slippageBps,
         swapAmount |-> swapAmount],
        SwapCollateralOutcome(workingData, availableAssets, sourceSymbol, targetSymbol,
                              percentage, slippageBps, swapAmount))

\* the clone of the repay projection with the debt written and, for a
\* collateral-funded repay, the collateral left as it was
RepayCloneDebtOnly(clone, outcome) ==
    [clone EXCEPT
        !.userBorrowsData[FindIndex(clone.userBorrowsData, outcome.debtSymbol)]
            .totalBorrows = IF outcome.kind = "manual" THEN outcome.newQty
                            ELSE outcome.newDebtQty]

\* the clone of the repay projection with its quantities written
RepayClone(clone, outcome) ==
    IF outcome.kind = "manual"
    THEN [clone EXCEPT
            !.userBorrowsData[FindIndex(clone.userBorrowsData, outcome.debtSymbol)]
                .totalBorrows = outcome.newQty]
    ELSE [clone EXCEPT
            !.userBorrowsData[FindIndex(clone.userBorrowsData, outcome.debtSymbol)]
                .totalBorrows = outcome.newDebtQty,
            !.userReservesData[FindIndex(clone.userReservesData, outcome.collateralSymbol)]
                .underlyingBalance = outcome.newCollateralQty]

ProjectingRepay(params, outcome) ==
    Projecting("getProjectedHealthFactorAfterRepay", params, outcome.kind = "none",
               updateDerivedHealthFactorData(RepayClone(JsonClone(workingData), outcome),
                                             marketReferenceCurrencyPriceInUSD))

getProjectedHealthFactorAfterRepay(params) ==
    ProjectingRepay(params, RepayOutcome(workingData, params))

\* the guards of getProjectedHealthFactorAfterBorrow
BorrowGuarded(data, assets, symbol, additionalUnits) ==
    \/ Le(additionalUnits, Zero)
    \/ /\ FindIndex(data.userBorrowsData, symbol) = 0
       /\ \/ FindAsset(assets, symbol) = 0
          \/ ~isBorrowableAsset(assets[FindAsset(assets, symbol)])

\* the clone of the borrow projection with the borrowing written
BorrowClone(clone, assets, symbol, additionalUnits) ==
    IF FindIndex(clone.userBorrowsData, symbol) # 0
    THEN [clone EXCEPT
            !.userBorrowsData[FindIndex(clone.userBorrowsData, symbol)].totalBorrows =
                Add(@, additionalUnits)]
    ELSE [clone EXCEPT
            !.userBorrowsData =
                Append(@, BorrowItem(assets[FindAsset(assets, symbol)], additionalUnits))]

getProjectedHealthFactorAfterBorrow(symbol, additionalUnits) ==
    Projecting("getProjectedHealthFactorAfterBorrow",
               [symbol |-> symbol, additionalUnits |-> additionalUnits],
               BorrowGuarded(workingData, availableAssets, symbol, additionalUnits),
               updateDerivedHealthFactorData(
                   BorrowClone(JsonClone(workingData), availableAssets, symbol,
                               additionalUnits),
                   marketReferenceCurrencyPriceInUSD))

---------------------------------------------------------------------------
\* The simulator: positions, what the dialogs and panels pass in, and the
\* handlers of the hook taken from store to store.

Half == Norm(1, 2)

\* The positions a session starts from, as loaded.
SimulatorSnapshots ==
    { \* one volatile reserve, one stable debt
      Position(<<ReserveItem(AssetCbBTC, Num(1), TRUE)>>,
               <<BorrowItem(AssetUSDC, Num(10000))>>, 0),
      \* a reserve not used as collateral, line items of quantity 0, a
      \* what-if price on a line item
      Position(<<ReserveItem(AssetWETH, Num(2), TRUE),
                 ReserveItem(AssetSDAI, Num(1000), FALSE),
                 ReserveItem(AssetCbBTC, Zero, TRUE)>>,
               <<BorrowItem(AssetUSDC, Num(1200)),
                 BorrowItem(Priced(AssetDAI, Num(2)), Zero)>>, 0),
      \* stable against stable
      Position(<<ReserveItem(AssetGHO, Num(1000), FALSE)>>,
               <<BorrowItem(AssetDAI, Num(600))>>, 0),
      Position(<< >>, << >>, 0) }

\* <<sourceSymbol, targetSymbol, percentage, slippageBps>>
SwapDebtInputs ==
    { <<USDC, DAI, Half, << >>>>,
      <<USDC, DAI, One, <<0>>>>,
      <<USDC, DAI, Zero, << >>>>,
      <<USDC, DAI, Neg(Half), << >>>>,
      <<USDC, USDC, Half, << >>>>,
      <<LINK, DAI, Half, << >>>>,
      <<USDC, LINK, Half, << >>>>,
      <<USDC, sDAI, Half, << >>>> }

\* <<sourceSymbol, targetSymbol, percentage, slippageBps, swapAmount>>
SwapCollateralInputs ==
    { <<WETH, DAI, Half, <<0>>, << >>>>,
      <<WETH, cbBTC, Half, <<0>>, <<Num(3)>>>>,
      <<WETH, cbBTC, Half, <<0>>, <<One>>>>,
      <<WETH, DAI, Zero, <<0>>, << >>>>,
      <<WETH, DAI, Neg(Half), <<0>>, << >>>>,
      <<WETH, WETH, Half, <<0>>, << >>>>,
      <<LINK, DAI, Half, <<0>>, << >>>>,
      <<WETH, LINK, Half, <<0>>, << >>>>,
      <<WETH, GHO, Half, <<0>>, << >>>> }

RepayInputs ==
    { ManualRepay(USDC, <<Num(200)>>),
      ManualRepay(USDC, <<Num(20000)>>),
      ManualRepay(USDC, <<Num(-5)>>),
      ManualRepay(USDC, << >>),
      ManualRepay(LINK, <<Num(200)>>),
      \* sold at the fee and slippage multiplier
      CollateralRepay(DAI, <<GHO>>, <<Half>>, << >>, <<0>>, << >>),
      CollateralRepay(USDC, <<sDAI>>, <<One>>, << >>, <<0>>, << >>),
      CollateralRepay(USDC, <<sDAI>>, << >>, <<Num(5000)>>, <<0>>, <<Zero>>),
      \* seized at a liquidation bonus
      CollateralRepay(USDC, <<WETH>>, << >>, <<Num(1000)>>, << >>, <<Num(5)>>),
      CollateralRepay(USDC, <<WETH>>, <<Half>>, << >>, << >>, <<Num(5)>>),
      CollateralRepay(USDC, <<sDAI>>, <<One>>, << >>, << >>, <<Num(5)>>),
      \* nothing to repay, nothing to repay with
      CollateralRepay(USDC, <<WETH>>, <<Zero>>, << >>, << >>, << >>),
      CollateralRepay(USDC, <<WETH>>, <<Neg(Half)>>, << >>, << >>, << >>),
      CollateralRepay(USDC, <<WETH>>, << >>, <<Zero>>, << >>, << >>),
      CollateralRepay(USDC, <<LINK>>, <<Half>>, << >>, << >>, << >>),
      CollateralRepay(USDC, <<cbBTC>>, <<Half>>, << >>, << >>, <<Num(5)>>),
      CollateralRepay(USDC, << >>, <<Half>>, << >>, << >>, << >>) }

\* previews whose preconditions fail on every position
SwapDebtUnmetInputs ==
    { <<USDC, USDC, Half, << >>>>, <<LINK, DAI, Half, << >>>>,
      <<USDC, LINK, Half, << >>>>, <<USDC, sDAI, Half, << >>>> }

SwapCollateralUnmetInputs ==
    { <<WETH, WETH, Half, << >>, << >>>>, <<LINK, DAI, Half, << >>, << >>>>,
      <<WETH, LINK, Half, << >>, << >>>>, <<WETH, GHO, Half, << >>, << >>>> }

RepayUnmetInputs ==
    { ManualRepay(LINK, <<Num(200)>>),
      ManualRepay(USDC, << >>),
      CollateralRepay(USDC, <<WETH>>, <<Zero>>, << >>, << >>, << >>),
      CollateralRepay(USDC, <<LINK>>, <<Half>>, << >>, << >>, << >>),
      CollateralRepay(USDC, << >>, <<Half>>, << >>, << >>, << >>) }

BorrowUnmetInputs == { <<DAI, Zero>>, <<LINK, Num(100)>>, <<sDAI, Num(100)>> }

\* what the dialogs preview
SwapDebtProjectionInputs ==
    { <<USDC, DAI, Half, <<0>>>>, <<USDC, USDC, Half, <<0>>>>,
      <<LINK, DAI, Half, <<0>>>>, <<USDC, sDAI, Half, <<0>>>> }

SwapCollateralProjectionInputs ==
    { <<WETH, DAI, Half, <<0>>, << >>>>, <<WETH, WETH, Half, <<0>>, << >>>>,
      <<WETH, GHO, Half, <<0>>, << >>>> }

RepayProjectionInputs ==
    { ManualRepay(USDC, <<Num(200)>>),
      ManualRepay(LINK, <<Num(200)>>),
      CollateralRepay(USDC, <<WETH>>, << >>, <<Num(1000)>>, << >>, <<Num(5)>>),
      CollateralRepay(USDC, <<WETH>>, <<Zero>>, << >>, << >>, << >>) }

\* <<symbol selected, amount typed>> of the borrow-more dialog
BorrowMoreInputs ==
    { <<<<USDC>>, Num(100)>>, <<<<DAI>>, Num(100)>>, <<<<DAI>>, Zero>>,
      << << >>, Num(100)>> }

\* <<symbol, additionalUnits>> of the borrow projection
BorrowProjectionInputs ==
    { <<USDC, Num(100)>>, <<DAI, Num(100)>>, <<DAI, Zero>>, <<LINK, Num(100)>>,
      <<sDAI, Num(100)>> }

AddInputs == {DAI, WETH, USDC, LINK}
RemoveInputs == {<<USDC, "BORROW">>, <<WETH, "RESERVE">>, <<LINK, "BORROW">>,
                 <<LINK, "RESERVE">>}

\* <<collateralSymbol, collateralAmount, debtSymbol, debtAmount>>
LoopingInputs ==
    { <<WETH, Num(3), USDC, Num(2000)>>, <<LINK, Num(3), USDC, Num(2000)>>,
      <<WETH, Num(3), LINK, Num(2000)>> }

InitSimulator ==
    /\ marketReferenceCurrencyPriceInUSD \in MarketRefPrices
    /\ \E snap \in SimulatorSnapshots :
          workingData =
            updateDerivedHealthFactorData(snap, marketReferenceCurrencyPriceInUSD)
    /\ passes = 0
    /\ locals = NoLocals
    /\ solver = IdleSolver
    /\ fee = NoFee
    /\ availableAssets = Catalog
    /\ call = NoCall
    /\ operations = 0
    /\ fetchedData = workingData
    /\ isRefreshActive = TRUE
    /\ inFlight = 0

NextSimulator ==
    \/ \E symbol \in AddInputs : addBorrowAsset(symbol)
    \/ \E symbol \in AddInputs : addReserveAsset(symbol)
    \/ \E inp \in RemoveInputs : removeAsset(inp[1], inp[2])
    \/ \E inp \in LoopingInputs :
          applyLoopingStateToPosition(inp[1], inp[2], inp[3], inp[4])
    \/ \E inp \in SwapDebtInputs : simulateSwapDebt(inp[1], inp[2], inp[3], inp[4])
    \/ \E inp \in SwapCollateralInputs :
          simulateSwapCollateral(inp[1], inp[2], inp[3], inp[4], inp[5])
    \/ \E params \in RepayInputs : simulateRepayDebt(params)
    \/ \E inp \in BorrowMoreInputs : handleApply(inp[1], inp[2])
    \/ \E inp \in SwapDebtUnmetInputs :
          getProjectedHealthFactorAfterSwapDebt(inp[1], inp[2], inp[3], inp[4])
    \/ \E inp \in SwapCollateralUnmetInputs :
          getProjectedHealthFactorAfterSwapCollateral(inp[1], inp[2], inp[3], inp[4],
                                                      inp[5])
    \/ \E params \in RepayUnmetInputs : getProjectedHealthFactorAfterRepay(params)
    \/ \E inp \in BorrowUnmetInputs :
          getProjectedHealthFactorAfterBorrow(inp[1], inp[2])

SpecSimulator == InitSimulator /\ [][NextSimulator]_vars

\* The previews alone: every projected variant on the positions as loaded,
\* getCalculatedLiquidationScenario taken sweep by sweep.
NextProjection ==
    \/ \E inp \in SwapDebtProjectionInputs :
          getProjectedHealthFactorAfterSwapDebt(inp[1], inp[2], inp[3], inp[4])
    \/ \E inp \in SwapCollateralProjectionInputs :
          getProjectedHealthFactorAfterSwapCollateral(inp[1], inp[2], inp[3], inp[4],
                                                      inp[5])
    \/ \E params \in RepayProjectionInputs : getProjectedHealthFactorAfterRepay(params)
    \/ \E inp \in BorrowProjectionInputs :
          getProjectedHealthFactorAfterBorrow(inp[1], inp[2])
    \/ ExpandSweep
    \/ EnterContraction
    \/ ContractSweep
    \/ ReturnScenario
    \/ ReturnProjection

\* The positions previewed: those of the simulator and one under water.
ProjectionSnapshots ==
    SimulatorSnapshots \cup
    { Position(<<ReserveItem(Priced(AssetWETH, Num(10)), Num(10), TRUE)>>,
               <<BorrowItem(AssetUSDC, Num(90))>>, 0) }

InitProjection ==
    /\ marketReferenceCurrencyPriceInUSD \in MarketRefPrices
    /\ \E snap \in ProjectionSnapshots :
          workingData =
            updateDerivedHealthFactorData(snap, marketReferenceCurrencyPriceInUSD)
    /\ passes = 0
    /\ locals = NoLocals
    /\ solver = IdleSolver
    /\ fee = NoFee
    /\ availableAssets = Catalog
    /\ call = NoCall
    /\ operations = 0
    /\ fetchedData = workingData
    /\ isRefreshActive = TRUE
    /\ inFlight = 0

SpecProjection == InitProjection /\ [][NextProjection]_vars

---------------------------------------------------------------------------
\* The simulator's operations against their contract.  `call'` names the
\* handler a step has run and what it was given; the unprimed variables are
\* the store it found.

\* Line items keep their place and their quantity from `before` to `after`,
\* but for the borrows of `borrowSymbols` and the reserves of
\* `reserveSymbols`; only line items of those symbols have joined.
QuantitiesKept(before, after, borrowSymbols, reserveSymbols) ==
    /\ Len(after.userReservesData) >= Len(before.userReservesData)
    /\ Len(after.userBorrowsData) >= Len(before.userBorrowsData)
    /\ \A k \in 1..Len(before.userReservesData) :
          before.userReservesData[k].asset.symbol \notin reserveSymbols =>
             /\ after.userReservesData[k].asset.symbol =
                   before.userReservesData[k].asset.symbol
             /\ after.userReservesData[k].underlyingBalance =
                   before.userReservesData[k].underlyingBalance
    /\ \A k \in 1..Len(before.userBorrowsData) :
          before.userBorrowsData[k].asset.symbol \notin borrowSymbols =>
             /\ after.userBorrowsData[k].asset.symbol =
                   before.userBorrowsData[k].asset.symbol
             /\ after.userBorrowsData[k].totalBorrows =
                   before.userBorrowsData[k].totalBorrows
    /\ \A k \in (Len(before.userReservesData) + 1)..Len(after.userReservesData) :
          after.userReservesData[k].asset.symbol \in reserveSymbols
    /\ \A k \in (Len(before.userBorrowsData) + 1)..Len(after.userBorrowsData) :
          after.userBorrowsData[k].asset.symbol \in borrowSymbols

\* the preconditions of a debt swap: a source with debt, another symbol as
\* target, the target listed and borrowable
SwapDebtValid(data, assets, args) ==
    /\ FindIndex(data.userBorrowsData, args.sourceSymbol) # 0
    /\ Gt(ExistingBorrows(data, args.sourceSymbol), Zero)
    /\ args.sourceSymbol # args.targetSymbol
    /\ FindAsset(assets, args.targetSymbol) # 0
    /\ isBorrowableAsset(assets[FindAsset(assets, args.targetSymbol)])

\* what a debt swap of `units` source units at `sourcePrice` into a target
\* listed at `targetPrice` has to leave behind
SwapDebtContract(before, after, args, units, sourcePrice, targetPrice) ==
    /\ ExistingBorrows(after, args.sourceSymbol) = Mul(units, Sub(One, args.percentage))
    /\ FindIndex(after.userBorrowsData, args.targetSymbol) # 0
    /\ ExistingBorrows(after, args.targetSymbol) =
          Add(ExistingBorrows(before, args.targetSymbol),
              Quot(Mul(Mul(Mul(units, args.percentage), sourcePrice),
                       getSwapFeeMultiplierForSlippageBps(OrDefault(args.slippageBps))),
                   targetPrice))
    /\ QuantitiesKept(before, after, {args.sourceSymbol, args.targetSymbol}, {})

\* C11: simulateSwapDebt(source, target, f, bps) on a source with debt, a
\* target other than the source that is listed and borrowable, leaves the
\* source borrow at sourceUnits x (1 - f) and the target borrow at its
\* previous units (0 with no line item, and then there is one afterwards)
\* plus sourceUnits x f x sourcePrice x multiplier(bps) / targetPrice, the
\* source priced as its line item is and the target as the catalog lists it;
\* every other reserve and borrow keeps its quantity.
C11_SwapDebt ==
    [][call'.op = "simulateSwapDebt"
          /\ SwapDebtValid(workingData, availableAssets, call'.args)
       => SwapDebtContract(
              workingData, workingData', call'.args,
              ExistingBorrows(workingData, call'.args.sourceSymbol),
              workingData.userBorrowsData[
                  FindIndex(workingData.userBorrowsData, call'.args.sourceSymbol)]
                  .asset.priceInUSD,
              availableAssets[FindAsset(availableAssets, call'.args.targetSymbol)]
                  .priceInUSD)]_vars

\* half of 1,200 USDC has been swapped into a DAI line item that was there
\* with a what-if price of $2: 600 x 0.982045 / 1 DAI were added
C11_Witness ==
    /\ call.op = "simulateSwapDebt"
    /\ call.args = [sourceSymbol |-> USDC, targetSymbol |-> DAI, percentage |-> Half,
                    slippageBps |-> << >>]
    /\ operations = 1
    /\ Len(workingData.userBorrowsData) = 2
    /\ workingData.userBorrowsData[2].asset.priceInUSD = Num(2)
    /\ ExistingBorrows(workingData, USDC) = Num(600)
    /\ ExistingBorrows(workingData, DAI) = Norm(589227, 1000)
    /\ ExistingBalance(workingData, WETH) = Num(2)

\* the swap of the example: half of a 10,000 USDC debt at $1 into DAI at $1,
\* default slippage
SwapOfExample ==
    /\ call'.op = "simulateSwapDebt"
    /\ call'.args = [sourceSymbol |-> USDC, targetSymbol |-> DAI, percentage |-> Half,
                     slippageBps |-> << >>]
    /\ ExistingBorrows(workingData, USDC) = Num(10000)
    /\ workingData.userBorrowsData[FindIndex(workingData.userBorrowsData, USDC)]
          .asset.priceInUSD = One
    /\ availableAssets[FindAsset(availableAssets, DAI)].priceInUSD = One

\* C12 as stated: swapping 50% of a 10,000 USDC debt into DAI at $1 with the
\* default 150 bps slippage and 30 bps combined fee adds 4,911.2625 DAI of
\* debt and reduces the USDC debt to 5,000.
C12_AsStated ==
    [][SwapOfExample =>
          /\ ExistingBorrows(workingData', DAI) =
                Add(ExistingBorrows(workingData, DAI), Norm(49112625, 10000))
          /\ ExistingBorrows(workingData', USDC) = Num(5000)]_vars

\* C12 as amended: that swap adds 5,000 x 0.997 x 0.985 = 4,910.225 DAI of
\* debt and reduces the USDC debt to 5,000.
C12_Example ==
    [][SwapOfExample =>
          /\ ExistingBorrows(workingData', DAI) =
                Add(ExistingBorrows(workingData, DAI), Norm(4910225, 1000))
          /\ ExistingBorrows(workingData', USDC) = Num(5000)]_vars

\* the swap of the example has run on a position without a DAI line item
C12_Witness ==
    /\ call.op = "simulateSwapDebt"
    /\ call.args = [sourceSymbol |-> USDC, targetSymbol |-> DAI, percentage |-> Half,
                    slippageBps |-> << >>]
    /\ operations = 1
    /\ Len(workingData.userBorrowsData) = 2
    /\ workingData.userBorrowsData[2].asset.symbol = DAI
    /\ workingData.userBorrowsData[2].asset.isNewlyAddedBySimUser
    /\ workingData.userBorrowsData[2].totalBorrows = Norm(4910225, 1000)
    /\ workingData.userBorrowsData[1].totalBorrows = Num(5000)

\* the preconditions of a collateral swap: a source with a balance, another
\* symbol as target, the target listed and suppliable
SwapCollateralValid(data, assets, args) ==
    /\ FindIndex(data.userReservesData, args.sourceSymbol) # 0
    /\ Gt(ExistingBalance(data, args.sourceSymbol), Zero)
    /\ args.sourceSymbol # args.targetSymbol
    /\ FindAsset(assets, args.targetSymbol) # 0
    /\ isSuppliableAsset(assets[FindAsset(assets, args.targetSymbol)])

\* the source units a collateral swap has to move
UnitsMoved(balance, args) ==
    IF args.swapAmount # << >> /\ Gt(args.swapAmount[1], Zero)
    THEN (IF Lt(args.swapAmount[1], balance) THEN args.swapAmount[1] ELSE balance)
    ELSE Mul(balance, args.percentage)

\* what a collateral swap that moves `units` source units has to leave behind
SwapCollateralContract(before, after, args, units, sourcePrice, targetPrice) ==
    /\ ExistingBalance(after, args.sourceSymbol) =
          Sub(ExistingBalance(before, args.sourceSymbol), units)
    /\ Le(Zero, args.percentage) /\ Le(args.percentage, One)
          => Le(Zero, ExistingBalance(after, args.sourceSymbol))
    /\ FindIndex(after.userReservesData, args.targetSymbol) # 0
    /\ ExistingBalance(after, args.targetSymbol) =
          Add(ExistingBalance(before, args.targetSymbol),
              Quot(Mul(Mul(units, sourcePrice),
                       getSwapFeeMultiplierForSlippageBps(OrDefault(args.slippageBps))),
                   targetPrice))
    /\ QuantitiesKept(before, after, {}, {args.sourceSymbol, args.targetSymbol})

\* C13: simulateSwapCollateral on a source with a balance and a target other
\* than the source that is listed and suppliable moves min(swapAmount,
\* sourceBalance) source units when a positive fixed amount is given and
\* sourceBalance x fraction otherwise: the source reserve falls by the units
\* moved (not below 0 for a fraction in [0, 1]), the target reserve, a line
\* item afterwards whether or not it was one before, rises by unitsMoved x
\* sourcePrice x multiplier(bps) / targetPrice, and nothing else changes
\* quantity; with a target that is not listed or not suppliable the position
\* is left as it was.
C13_SwapCollateral ==
    [][call'.op = "simulateSwapCollateral" =>
          IF SwapCollateralValid(workingData, availableAssets, call'.args)
          THEN SwapCollateralContract(
                  workingData, workingData', call'.args,
                  UnitsMoved(ExistingBalance(workingData, call'.args.sourceSymbol),
                             call'.args),
                  workingData.userReservesData[
                      FindIndex(workingData.userReservesData, call'.args.sourceSymbol)]
                      .asset.priceInUSD,
                  availableAssets[FindAsset(availableAssets, call'.args.targetSymbol)]
                      .priceInUSD)
          ELSE (FindAsset(availableAssets, call'.args.targetSymbol) = 0
                  \/ ~isSuppliableAsset(
                        availableAssets[FindAsset(availableAssets,
                                                  call'.args.targetSymbol)]))
               => workingData' = workingData]_vars

\* a fixed amount of 3 WETH was asked of a balance of 2: the 2 were moved
\* into the cbBTC line item at no slippage
C13_Witness ==
    /\ call.op = "simulateSwapCollateral"
    /\ call.args = [sourceSymbol |-> WETH, targetSymbol |-> cbBTC, percentage |-> Half,
                    slippageBps |-> <<0>>, swapAmount |-> <<Num(3)>>]
    /\ operations = 1
    /\ ExistingBalance(workingData, WETH) = Zero
    /\ ExistingBalance(workingData, cbBTC) = Norm(997, 12000)
    /\ ExistingBalance(workingData, sDAI) = Num(1000)

\* the debt units a collateral-funded repay aims at
RepayTargetUnits(debt, params) ==
    IF params.collateralRepayAmount # << >> /\ Gt(params.collateralRepayAmount[1], Zero)
    THEN (IF Lt(params.collateralRepayAmount[1], debt)
          THEN params.collateralRepayAmount[1] ELSE debt)
    ELSE IF params.percentage # << >> THEN Mul(params.percentage[1], debt)
    ELSE Zero

\* the preconditions of a collateral-funded repay: a debt, a collateral
\* line item with a balance, a target above 0
CollateralRepayValid(data, params) ==
    /\ params.mode = "collateral"
    /\ params.collateralSymbol # << >>
    /\ FindIndex(data.userBorrowsData, params.debtSymbol) # 0
    /\ Gt(ExistingBorrows(data, params.debtSymbol), Zero)
    /\ FindIndex(data.userReservesData, params.collateralSymbol[1]) # 0
    /\ Gt(ExistingBalance(data, params.collateralSymbol[1]), Zero)
    /\ Gt(RepayTargetUnits(ExistingBorrows(data, params.debtSymbol), params), Zero)

HasBonus(params) ==
    params.liquidationBonusPct # << >> /\ Gt(params.liquidationBonusPct[1], Zero)

BorrowPrice(data, symbol) ==
    data.userBorrowsData[FindIndex(data.userBorrowsData, symbol)].asset.priceInUSD

ReservePrice(data, symbol) ==
    data.userReservesData[FindIndex(data.userReservesData, symbol)].asset.priceInUSD

\* what a collateral-funded repay has to leave behind when it needs `needed`
\* collateral units for its target and each unit given up takes `perUnit`
\* units off the debt
CollateralRepayContract(before, after, params, debt, balance, target, needed, perUnit) ==
    /\ ExistingBalance(after, params.collateralSymbol[1]) =
          Sub(balance, IF Lt(balance, needed) THEN balance ELSE needed)
    /\ ExistingBorrows(after, params.debtSymbol) =
          Sub(debt,
              IF Lt(debt, Mul(IF Lt(balance, needed) THEN balance ELSE needed, perUnit))
              THEN debt
              ELSE Mul(IF Lt(balance, needed) THEN balance ELSE needed, perUnit))
    /\ Le(needed, balance) => ExistingBorrows(after, params.debtSymbol) = Sub(debt, target)
    /\ QuantitiesKept(before, after, {params.debtSymbol}, {params.collateralSymbol[1]})

\* C14: a collateral-funded repay without liquidation bonus sells
\* min(targetDebtUsd / multiplier(bps) / collateralPrice, collateralBalance)
\* collateral units and takes min(unitsSold x collateralPrice x
\* multiplier(bps) / debtPrice, outstandingDebt) off the debt; when the
\* collateral suffices the debt falls by exactly the target, which is
\* min(fixedAmount, outstandingDebt) for a positive fixed amount and
\* fraction x outstandingDebt otherwise.
C14_RepayBySale ==
    [][call'.op = "simulateRepayDebt"
          /\ CollateralRepayValid(workingData, call'.args)
          /\ ~HasBonus(call'.args)
       => CollateralRepayContract(
              workingData, workingData', call'.args,
              ExistingBorrows(workingData, call'.args.debtSymbol),
              ExistingBalance(workingData, call'.args.collateralSymbol[1]),
              RepayTargetUnits(ExistingBorrows(workingData, call'.args.debtSymbol),
                               call'.args),
              Quot(Quot(Mul(RepayTargetUnits(
                                ExistingBorrows(workingData, call'.args.debtSymbol),
                                call'.args),
                            BorrowPrice(workingData, call'.args.debtSymbol)),
                        getSwapFeeMultiplierForSlippageBps(
                            OrDefault(call'.args.slippageBps))),
                   ReservePrice(workingData, call'.args.collateralSymbol[1])),
              Quot(Mul(ReservePrice(workingData, call'.args.collateralSymbol[1]),
                       getSwapFeeMultiplierForSlippageBps(
                           OrDefault(call'.args.slippageBps))),
                   BorrowPrice(workingData, call'.args.debtSymbol)))]_vars

\* half of 600 DAI was repaid from 1,000 GHO at no slippage: 300 / 0.997 GHO
\* were sold and the debt fell by the 300
C14_Witness ==
    /\ call.op = "simulateRepayDebt"
    /\ call.args = CollateralRepay(DAI, <<GHO>>, <<Half>>, << >>, <<0>>, << >>)
    /\ operations = 1
    /\ ExistingBorrows(workingData, DAI) = Num(300)
    /\ ExistingBalance(workingData, GHO) = Norm(697000, 997)

\* C15: a collateral-funded repay with a liquidation bonus b > 0 seizes
\* collateral worth targetDebtUsd x (1 + b), capped at the collateral there
\* is, applies no swap fee or slippage, and takes seizedValue / (1 + b) /
\* debtPrice off the debt, capped at the outstanding debt; uncapped, the debt
\* falls by exactly the target: repaying 1,000 USDC at 5% seizes $1,050 and
\* removes exactly 1,000 units.
C15_RepayBySeizure ==
    [][call'.op = "simulateRepayDebt"
          /\ CollateralRepayValid(workingData, call'.args)
          /\ HasBonus(call'.args)
       => CollateralRepayContract(
              workingData, workingData', call'.args,
              ExistingBorrows(workingData, call'.args.debtSymbol),
              ExistingBalance(workingData, call'.args.collateralSymbol[1]),
              RepayTargetUnits(ExistingBorrows(workingData, call'.args.debtSymbol),
                               call'.args),
              Quot(Mul(Mul(RepayTargetUnits(
                               ExistingBorrows(workingData, call'.args.debtSymbol),
                               call'.args),
                           BorrowPrice(workingData, call'.args.debtSymbol)),
                       Add(One, Quot(call'.args.liquidationBonusPct[1], Num(100)))),
                   ReservePrice(workingData, call'.args.collateralSymbol[1])),
              Quot(Quot(ReservePrice(workingData, call'.args.collateralSymbol[1]),
                        Add(One, Quot(call'.args.liquidationBonusPct[1], Num(100)))),
                   BorrowPrice(workingData, call'.args.debtSymbol)))]_vars

\* 1,000 of 1,200 USDC were repaid from WETH at $2,500 with a 5% bonus:
\* $1,050 of WETH, 0.42 units, were seized and exactly 1,000 USDC removed
C15_Witness ==
    /\ call.op = "simulateRepayDebt"
    /\ call.args = CollateralRepay(USDC, <<WETH>>, << >>, <<Num(1000)>>, << >>,
                                   <<Num(5)>>)
    /\ operations = 1
    /\ ExistingBorrows(workingData, USDC) = Num(200)
    /\ ExistingBalance(workingData, WETH) = Sub(Num(2), Quot(Num(1050), Num(2500)))
    /\ ExistingBalance(workingData, WETH) = Cents(158)

\* no borrow and no reserve of the position has a quantity below 0
NoneNegative(data) ==
    /\ \A k \in 1..Len(data.userBorrowsData) : Le(Zero, data.userBorrowsData[k].totalBorrows)
    /\ \A k \in 1..Len(data.userReservesData) :
          Le(Zero, data.userReservesData[k].underlyingBalance)

\* a repay that finds quantities not below 0 leaves quantities not below 0
RepayKeepsNoneNegative ==
    call'.op = "simulateRepayDebt" /\ NoneNegative(workingData)
       => NoneNegative(workingData')

\* a manual repay of a debt that is there
ManualRepayValid ==
    /\ call'.op = "simulateRepayDebt"
    /\ call'.args.mode = "manual"
    /\ call'.args.manualAmount # << >>
    /\ Gt(ExistingBorrows(workingData, call'.args.debtSymbol), Zero)

\* C16 as stated: repay never drives a quantity negative: from quantities
\* not below 0, after simulateRepayDebt in any mode with any amount, fraction
\* or bonus, every totalBorrows and every underlyingBalance is >= 0, and a
\* manual repay of amount a leaves the debt at max(0, debt - a).
C16_AsStated ==
    [][/\ RepayKeepsNoneNegative
       /\ ManualRepayValid =>
             ExistingBorrows(workingData', call'.args.debtSymbol) =
                Max(Zero, Sub(ExistingBorrows(workingData, call'.args.debtSymbol),
                              call'.args.manualAmount[1]))]_vars

\* C16 as amended: repay never drives a quantity negative, as above, and a
\* manual repay of amount a leaves the debt at max(0, debt - max(0, a)): an
\* amount below 0 repays nothing.
C16_RepayFloors ==
    [][/\ RepayKeepsNoneNegative
       /\ ManualRepayValid =>
             ExistingBorrows(workingData', call'.args.debtSymbol) =
                Max(Zero, Sub(ExistingBorrows(workingData, call'.args.debtSymbol),
                              Max(Zero, call'.args.manualAmount[1])))]_vars

\* 20,000 USDC were repaid by hand on a debt of 1,200: the debt is 0
C16_Witness ==
    /\ call.op = "simulateRepayDebt"
    /\ call.args = ManualRepay(USDC, <<Num(20000)>>)
    /\ operations = 1
    /\ Len(workingData.userBorrowsData) = 2
    /\ workingData.userBorrowsData[1].asset.symbol = USDC
    /\ workingData.userBorrowsData[1].totalBorrows = Zero
    /\ ExistingBalance(workingData, WETH) = Num(2)

\* a precondition of a repay fails: no debt line item or one without debt,
\* or, for a collateral-funded repay, no collateral line item or one
\* without a balance
RepayUnmet(data, params) ==
    \/ FindIndex(data.userBorrowsData, params.debtSymbol) = 0
    \/ Le(ExistingBorrows(data, params.debtSymbol), Zero)
    \/ /\ params.mode = "collateral"
       /\ \/ params.collateralSymbol = << >>
          \/ FindIndex(data.userReservesData, params.collateralSymbol[1]) = 0
          \/ Le(ExistingBalance(data, params.collateralSymbol[1]), Zero)

\* the step is a call of `mutation` or of `projection`, its preconditions
\* fail: the mutation leaves the position as it was, the projection returns
\* the null projection
NoOpWhenUnmet(mutation, projection, unmet) ==
    /\ call'.op = mutation /\ unmet => workingData' = workingData
    /\ call'.op = projection /\ unmet =>
          /\ call'.result = [healthFactor |-> Null, liquidationScenario |-> << >>]
          /\ workingData' = workingData

\* C17: when a precondition fails (source line item absent or with zero
\* quantity, source symbol equal to target symbol, target asset absent from
\* the catalog or not borrowable/suppliable, debt item absent or zero,
\* collateral item absent or zero), the mutating swap and repay operations
\* leave the working position completely unchanged and the projected
\* variants return a null health factor with an empty scenario.
C17_FailedPreconditions ==
    [][/\ NoOpWhenUnmet("simulateSwapDebt", "getProjectedHealthFactorAfterSwapDebt",
                        ~SwapDebtValid(workingData, availableAssets, call'.args))
       /\ NoOpWhenUnmet("simulateSwapCollateral",
                        "getProjectedHealthFactorAfterSwapCollateral",
                        ~SwapCollateralValid(workingData, availableAssets, call'.args))
       /\ NoOpWhenUnmet("simulateRepayDebt", "getProjectedHealthFactorAfterRepay",
                        RepayUnmet(workingData, call'.args))]_vars

\* a debt swap into sDAI, which is not borrowable, was previewed as the
\* second call of a session: the position is the one loaded and the preview
\* is the null projection
C17_Witness ==
    /\ call.op = "getProjectedHealthFactorAfterSwapDebt"
    /\ call.args = [sourceSymbol |-> USDC, targetSymbol |-> sDAI, percentage |-> Half,
                    slippageBps |-> << >>]
    /\ call.result = NullProjection
    /\ operations = 2
    /\ ExistingBorrows(workingData, USDC) = Num(1200)
    /\ ExistingBalance(workingData, WETH) = Num(2)
    /\ ExistingBalance(workingData, cbBTC) = Zero
    /\ Len(workingData.userReservesData) = 3
    /\ Len(workingData.userBorrowsData) = 2

\* the step calls a mutation entry point with a symbol that is not in the
\* catalog (the adders, the looping state) or not in the list it targets
\* (the remover, the setters)
UnknownSymbolCall ==
    \/ /\ call'.op \in {"addBorrowAsset", "addReserveAsset"}
       /\ FindAsset(availableAssets, call'.args.symbol) = 0
    \/ /\ call'.op = "removeAsset"
       /\ IF call'.args.assetType = "RESERVE"
          THEN FindIndex(workingData.userReservesData, call'.args.symbol) = 0
          ELSE FindIndex(workingData.userBorrowsData, call'.args.symbol) = 0
    \/ /\ call'.op = "applyLoopingStateToPosition"
       /\ \/ FindAsset(availableAssets, call'.args.collateralSymbol) = 0
          \/ FindAsset(availableAssets, call'.args.debtSymbol) = 0
    \/ /\ call'.op \in {"setReserveAssetQuantity", "setUseReserveAssetAsCollateral"}
       /\ FindIndex(workingData.userReservesData, call'.args.symbol) = 0
    \/ /\ call'.op = "setBorrowedAssetQuantity"
       /\ FindIndex(workingData.userBorrowsData, call'.args.symbol) = 0
    \/ /\ call'.op = "setAssetPriceInUSD"
       /\ FindIndex(workingData.userReservesData, call'.args.symbol) = 0
       /\ FindIndex(workingData.userBorrowsData, call'.args.symbol) = 0

\* C18: for every mutation entry point that takes an asset symbol (add
\* reserve, add borrow, remove line item, set quantity, set price, toggle
\* collateral, apply looping state), a symbol that is not in the catalog or
\* not present in the targeted list is a silent no-op: no exception is
\* raised and no line item of the working position is added, removed or
\* changed.
C18_UnknownSymbolNoOp ==
    [][UnknownSymbolCall =>
          /\ ~call'.threw
          /\ workingData'.userReservesData = workingData.userReservesData
          /\ workingData'.userBorrowsData = workingData.userBorrowsData]_vars

\* the step is a swap asked for a fraction of 0 or less with no fixed amount
\* above 0, or a collateral-funded repay whose target is 0 or less
NothingAsked ==
    \/ /\ call'.op = "simulateSwapDebt"
       /\ Le(call'.args.percentage, Zero)
    \/ /\ call'.op = "simulateSwapCollateral"
       /\ Le(call'.args.percentage, Zero)
       /\ ~(call'.args.swapAmount # << >> /\ Gt(call'.args.swapAmount[1], Zero))
    \/ /\ call'.op = "simulateRepayDebt"
       /\ call'.args.mode = "collateral"
       /\ Le(RepayTargetUnits(ExistingBorrows(workingData, call'.args.debtSymbol),
                              call'.args), Zero)

\* C19: a swap-debt or swap-collateral invoked with a zero or negative
\* fraction (and no positive fixed amount), and a collateral-funded repay
\* invoked with a zero or negative target, leave the working position
\* unchanged: no line item is created and no quantity changes.
C19_NothingAskedNoOp ==
    [][NothingAsked =>
          /\ Len(workingData'.userReservesData) = Len(workingData.userReservesData)
          /\ Len(workingData'.userBorrowsData) = Len(workingData.userBorrowsData)
          /\ QuantitiesKept(workingData, workingData', {}, {})]_vars

\* no symbol stands twice in the list
UniqueSymbols(items) ==
    \A i, j \in 1..Len(items) : items[i].asset.symbol = items[j].asset.symbol => i = j

\* C20: in every state reachable from a position with unique symbols by any
\* sequence of add line item, remove line item, swap, repay, borrow-more and
\* apply-looping-state operations, no two reserve line items share a symbol
\* and no two borrow line items share a symbol.
C20_UniqueSymbols ==
    /\ UniqueSymbols(workingData.userReservesData)
    /\ UniqueSymbols(workingData.userBorrowsData)

---------------------------------------------------------------------------
\* The previews against the position they preview.

\* a step of a projected variant or of getCalculatedLiquidationScenario
PreviewStep ==
    \/ call'.op \in ProjectionNames /\ call' # call
    \/ solver' # solver

\* C21: the projected variants (after swap debt, swap collateral, repay,
\* borrow) and getCalculatedLiquidationScenario never change the working
\* position: every line item, asset price and derived field of workingData
\* is the same before and after the call, for all parameters.
C21_PreviewsKeepPosition ==
    [][PreviewStep => workingData' = workingData]_vars

\* a debt swap was previewed on the position with 10,000 USDC of debt and
\* returned: the preview holds a health factor the position does not have,
\* the position is the one loaded
C21_Witness ==
    /\ call.op = "getProjectedHealthFactorAfterSwapDebt"
    /\ call.result # << >>
    /\ call.result # NullProjection
    /\ call.result.healthFactor # workingData.healthFactor
    /\ ExistingBorrows(workingData, USDC) = Num(10000)
    /\ ExistingBorrows(workingData, DAI) = Zero
    /\ Len(workingData.userBorrowsData) = 1

\* the position the mutating operation leaves when it is applied to `st`
\* with the parameters the projected variant `op` was given
Mutated(st, op, args, marketRefPrice) ==
    IF op = "getProjectedHealthFactorAfterSwapDebt"
    THEN SwapDebt(st, args.sourceSymbol, args.targetSymbol, args.percentage,
                  args.slippageBps, marketRefPrice).data
    ELSE IF op = "getProjectedHealthFactorAfterSwapCollateral"
    THEN SwapCollateral(st, args.sourceSymbol, args.targetSymbol, args.percentage,
                        args.slippageBps, args.swapAmount, marketRefPrice).data
    ELSE IF op = "getProjectedHealthFactorAfterRepay"
    THEN Repay(st, args, marketRefPrice).data
    ELSE BorrowMore(st, args.symbol, args.additionalUnits, marketRefPrice).data

\* a projected variant returns what it computed
ProjectionReturns ==
    /\ call.op \in ProjectionNames
    /\ call.result = << >>
    /\ call'.result # << >>

\* the position without the user-added marks of its borrowed assets, which
\* neither the derived-metrics pass nor the solver reads and no scenario
\* carries
SansBorrowMarks(data) ==
    [data EXCEPT !.userBorrowsData =
        [k \in 1..Len(data.userBorrowsData) |->
            [data.userBorrowsData[k] EXCEPT !.asset.isNewlyAddedBySimUser = FALSE]]]

\* C22: for swap debt, swap collateral, repay and borrow-more, whenever the
\* projected variant returns a non-null health factor for given parameters,
\* it equals the working position's health factor after the corresponding
\* mutating operation is applied with the same parameters to the same
\* position, and the projected liquidation scenario equals the scenario
\* solved from that mutated position: the position the scenario was solved
\* from is the mutated position, line item for line item and derived field
\* for derived field.
C22_ProjectionIsMutation ==
    [][ProjectionReturns /\ call'.result.healthFactor # Null =>
          /\ call'.result.healthFactor =
                Mutated(Store(workingData, availableAssets), call.op, call.args,
                        marketReferenceCurrencyPriceInUSD).healthFactor
          /\ call'.result.liquidationScenario = solver.result
          /\ SansBorrowMarks(solver.input) =
                SansBorrowMarks(Mutated(Store(workingData, availableAssets), call.op,
                                        call.args,
                                        marketReferenceCurrencyPriceInUSD))]_vars

\* the repay of 1,000 USDC from WETH at a 5% bonus was previewed on the
\* position with 1,200 USDC of debt and returned a health factor
C22_Witness ==
    /\ call.op = "getProjectedHealthFactorAfterRepay"
    /\ call.args = CollateralRepay(USDC, <<WETH>>, << >>, <<Num(1000)>>, << >>,
                                   <<Num(5)>>)
    /\ call.result # << >>
    /\ call.result.healthFactor # Null
    /\ call.result.healthFactor # workingData.healthFactor
    /\ ExistingBorrows(workingData, USDC) = Num(1200)

---------------------------------------------------------------------------
\* A session: every operation of the simulator on the store as a fetch
\* left it, the working position next to its baseline.

\* setAssetPriceInUSD without its updateAllDerivedHealthFactorData
AssetPriceInUSDSetNoPass(st, symbol, price, marketRefPrice) ==
    Store(WithAssetPriceInUSD(st.data, symbol, price), st.assets)

\* setAssetPriceInUSD, from the store it finds to the one it leaves
AssetPriceInUSDSet(st, symbol, price, marketRefPrice) ==
    Store(updateDerivedHealthFactorData(WithAssetPriceInUSD(st.data, symbol, price),
                                        marketRefPrice),
          st.assets)

\* `reserveItem.usageAsCollateralEnabledOnUser.set(value)`
WithUseAsCollateral(data, k, value) ==
    IF k = 0 THEN data
    ELSE [data EXCEPT !.userReservesData[k].usageAsCollateralEnabledOnUser = value]

\* setUseReserveAssetAsCollateral, from the store it finds to the one it leaves
UseReserveAssetAsCollateralSet(st, symbol, value, marketRefPrice) ==
    Store(updateDerivedHealthFactorData(
              WithUseAsCollateral(st.data, FindIndex(st.data.userReservesData, symbol),
                                  value),
              marketRefPrice),
          st.assets)

\* the setters as operations of a session
SimSetAssetPriceInUSD(symbol, price) ==
    /\ operations < MaxOperations
    /\ Called("setAssetPriceInUSD", [symbol |-> symbol, price |-> price])
    /\ Applied(AssetPriceInUSDSet(Store(workingData, availableAssets), symbol, price,
                                  marketReferenceCurrencyPriceInUSD))

SimSetUseReserveAssetAsCollateral(symbol, value) ==
    /\ operations < MaxOperations
    /\ Called("setUseReserveAssetAsCollateral", [symbol |-> symbol, value |-> value])
    /\ Applied(UseReserveAssetAsCollateralSet(Store(workingData, availableAssets),
                                              symbol, value,
                                              marketReferenceCurrencyPriceInUSD))

SimSetReserveAssetQuantity(symbol, quantity) ==
    /\ operations < MaxOperations
    /\ Called("setReserveAssetQuantity", [symbol |-> symbol, quantity |-> quantity])
    /\ Applied(Store(ReserveAssetQuantitySet(workingData, symbol, quantity,
                                             marketReferenceCurrencyPriceInUSD),
                     availableAssets))

SimSetBorrowedAssetQuantity(symbol, quantity) ==
    /\ operations < MaxOperations
    /\ Called("setBorrowedAssetQuantity", [symbol |-> symbol, quantity |-> quantity])
    /\ Applied(Store(BorrowedAssetQuantitySet(workingData, symbol, quantity,
                                              marketReferenceCurrencyPriceInUSD),
                     availableAssets))

\* resetCurrentMarketChanges without its updateAllDerivedHealthFactorData
ResetToFetchedNoPass(fetched, marketRefPrice) == JsonClone(fetched)

\* resetCurrentMarketChanges, from the baseline to the working position
ResetToFetched(fetched, marketRefPrice) ==
    updateDerivedHealthFactorData(JsonClone(fetched), marketRefPrice)

resetCurrentMarketChanges ==
    /\ operations < MaxOperations
    /\ solver.pc = "idle"
    /\ Called("resetCurrentMarketChanges", << >>)
    /\ workingData' = ResetToFetched(fetchedData, marketReferenceCurrencyPriceInUSD)
    /\ isRefreshActive' = TRUE
    /\ passes' = 0
    /\ locals' = NoLocals
    /\ operations' = operations + 1
    /\ UNCHANGED <<marketReferenceCurrencyPriceInUSD, solver, fee, fetchedData, inFlight,
                   availableAssets>>

\* applyLiquidationScenario up to the first loop of the scenario it asks for
SimApplyLiquidationScenario ==
    /\ operations < MaxOperations
    /\ solver.pc = "idle"
    /\ Called("applyLiquidationScenario", << >>)
    /\ solver' = ScenarioEntered(workingData)
    /\ operations' = operations + 1
    /\ UNCHANGED <<workingData, marketReferenceCurrencyPriceInUSD, passes, locals, fee,
                   fetchedData, isRefreshActive, inFlight, availableAssets>>

\* What getAaveData delivers with a position: the catalog priced in the
\* market reference currency at the market reference price of the fetch.
ProvidedAsset(asset, marketRefPrice) ==
    [asset EXCEPT !.priceInMarketReferenceCurrency =
                      ToNumber(DividedBy(asset.priceInUSD, marketRefPrice))]

ProvidedCatalog(marketRefPrice) ==
    [k \in 1..Len(Catalog) |-> ProvidedAsset(Catalog[k], marketRefPrice)]

SessionReserveQuantityInputs == {<<WETH, Num(3)>>}
SessionBorrowQuantityInputs == {<<USDC, Num(500)>>}
SessionPriceInputs == {<<DAI, Num(2)>>, <<WETH, Num(2000)>>}
SessionCollateralInputs == {<<sDAI, TRUE>>, <<WETH, FALSE>>}
SessionAddInputs == {DAI}
SessionRemoveInputs == {<<USDC, "BORROW">>}
SessionSwapDebtInputs == {<<USDC, DAI, Half, <<0>>>>}
SessionSwapCollateralInputs == {<<sDAI, DAI, Half, <<0>>, << >>>>}
SessionRepayInputs == {ManualRepay(USDC, <<Num(200)>>)}
SessionBorrowMoreInputs == {<<<<DAI>>, Num(100)>>}

\* the store after the fetch: the baseline has passed through the derived
\* pass, the working position is a copy of it
InitSession ==
    /\ marketReferenceCurrencyPriceInUSD \in MarketRefPrices
    /\ \E snap \in ProjectionSnapshots :
          fetchedData =
            updateDerivedHealthFactorData(snap, marketReferenceCurrencyPriceInUSD)
    /\ workingData = fetchedData
    /\ availableAssets = ProvidedCatalog(marketReferenceCurrencyPriceInUSD)
    /\ passes = 0
    /\ locals = NoLocals
    /\ solver = IdleSolver
    /\ fee = NoFee
    /\ call = NoCall
    /\ operations = 0
    /\ isRefreshActive = TRUE
    /\ inFlight = 0

NextSession ==
    \/ \E inp \in SessionReserveQuantityInputs : SimSetReserveAssetQuantity(inp[1], inp[2])
    \/ \E inp \in SessionBorrowQuantityInputs : SimSetBorrowedAssetQuantity(inp[1], inp[2])
    \/ \E inp \in SessionPriceInputs : SimSetAssetPriceInUSD(inp[1], inp[2])
    \/ \E inp \in SessionCollateralInputs :
          SimSetUseReserveAssetAsCollateral(inp[1], inp[2])
    \/ \E symbol \in SessionAddInputs : addBorrowAsset(symbol)
    \/ \E symbol \in SessionAddInputs : addReserveAsset(symbol)
    \/ \E inp \in SessionRemoveInputs : removeAsset(inp[1], inp[2])
    \/ \E inp \in SessionSwapDebtInputs : simulateSwapDebt(inp[1], inp[2], inp[3], inp[4])
    \/ \E inp \in SessionSwapCollateralInputs :
          simulateSwapCollateral(inp[1], inp[2], inp[3], inp[4], inp[5])
    \/ \E params \in SessionRepayInputs : simulateRepayDebt(params)
    \/ \E inp \in SessionBorrowMoreInputs : handleApply(inp[1], inp[2])
    \/ resetCurrentMarketChanges
    \/ SimApplyLiquidationScenario
    \/ ExpandSweep
    \/ EnterContraction
    \/ ContractSweep
    \/ ReturnScenario
    \/ applyLiquidationScenario

SpecSession == InitSession /\ [][NextSession]_vars

\* C23: after any sequence of operations of a session the stored derived
\* fields are those the derived pass computes from the line items: one more
\* pass changes nothing.
C23_DerivedFieldsPure ==
    updateDerivedHealthFactorData(workingData, marketReferenceCurrencyPriceInUSD)
        = workingData

C23_Witness ==
    /\ call.op = "simulateSwapCollateral"
    /\ ~call.threw
    /\ Len(workingData.userReservesData) > Len(fetchedData.userReservesData)
    /\ workingData.healthFactor # fetchedData.healthFactor
    /\ workingData.totalCollateralMarketReferenceCurrency
          # fetchedData.totalCollateralMarketReferenceCurrency

---------------------------------------------------------------------------
\* The baseline and the catalog under the operations of a session.

SimulationOperations ==
    {"setReserveAssetQuantity", "setBorrowedAssetQuantity", "setAssetPriceInUSD",
     "setUseReserveAssetAsCollateral", "addBorrowAsset", "addReserveAsset",
     "removeAsset", "simulateSwapDebt", "simulateSwapCollateral", "simulateRepayDebt"}

\* the prices the catalog holds, asset by asset
CatalogPrices(assets) ==
    [k \in 1..Len(assets) |->
        [symbol |-> assets[k].symbol,
         priceInUSD |-> assets[k].priceInUSD,
         priceInMarketReferenceCurrency |-> assets[k].priceInMarketReferenceCurrency]]

\* C25: no simulation operation on the working position (set quantity, set
\* price, toggle collateral, add or remove a line item, swap, repay) changes
\* the fetched baseline or the prices of the asset catalog.
C25_BaselineAndCatalogKept ==
    [][call'.op \in SimulationOperations =>
          /\ fetchedData' = fetchedData
          /\ CatalogPrices(availableAssets') = CatalogPrices(availableAssets)]_vars

\* C28: a simulateSwapDebt, simulateSwapCollateral or simulateRepayDebt that
\* has changed the working position leaves auto-refresh turned off.
C28_SimulationStopsRefresh ==
    [][/\ call'.op \in {"simulateSwapDebt", "simulateSwapCollateral",
                        "simulateRepayDebt"}
       /\ workingData' # workingData
       => isRefreshActive' = FALSE]_vars

\* C29: resetCurrentMarketChanges leaves a working position whose line items
\* and derived fields are those of the fetched baseline and isRefreshActive
\* true; the copy is the working position's own, what is done to it next
\* leaves the baseline as it was.
C29_ResetRestoresBaseline ==
    [][/\ call'.op = "resetCurrentMarketChanges" =>
              /\ workingData' = fetchedData
              /\ fetchedData' = fetchedData
              /\ isRefreshActive'
       /\ call.op = "resetCurrentMarketChanges" => fetchedData' = fetchedData]_vars

\* a reset after an adder had marked an asset of the catalog, and after an
\* applied liquidation scenario had turned auto-refresh off
C29_Witness ==
    /\ call.op = "resetCurrentMarketChanges"
    /\ workingData = fetchedData
    /\ isRefreshActive
    /\ \E k \in 1..Len(availableAssets) : availableAssets[k].isNewlyAddedBySimUser
    /\ Len(workingData.userBorrowsData) > 0

---------------------------------------------------------------------------
\* Borrow more.

\* C26: borrow more with a borrowable symbol and a positive number of units
\* adds the units to the existing borrow of the symbol, or makes a borrow
\* line item of those units, whatever availableBorrowsUSD is.
C26_BorrowMoreApplied ==
    [][/\ call'.op = "handleApply"
       /\ call'.args.symbol # << >>
       /\ Gt(call'.args.amount, Zero)
       => ExistingBorrows(workingData', call'.args.symbol[1])
            = Add(ExistingBorrows(workingData, call'.args.symbol[1]),
                  call'.args.amount)]_vars

---------------------------------------------------------------------------
\* The short circuit of the contraction loop.

\* the health factor is in the target band [1.00, 1.005]
InTargetBand(hf) == IsFinite(hf) /\ Ge(hf, One) /\ Le(hf, HF_LIMIT)

\* C27: the contraction loop sets shortCircuit, and the solver then returns
\* no scenario, only if every eligible asset is at $0.01 and the health
\* factor has not reached the target band; when the sweep that takes the
\* last asset to $0.01 brings the health factor into [1.00, 1.005], the
\* solver returns that scenario.
C27_ShortCircuit ==
    solver.pc = "done" /\ solver.shortCircuit =>
        /\ NoAssetAboveOneCent(solver.hfData, solver.assets)
        /\ ~InTargetBand(solver.hf)
        /\ solver.result = << >>

---------------------------------------------------------------------------
\* The refresh: the effect that starts a fetch of every market while
\* isRefreshActive is true, and applyRefreshPreservingWorkingData, which
\* stores what a fetch delivers.

\* the fetches in flight at once
MaxInFlight == 1

\* What getAaveData delivers: the position on chain at the prices of the
\* fetch, passed through the derived pass, once as fetchedData and once as
\* workingData, with the catalog priced alike.
FreshCatalog(wethPrice, marketRefPrice) ==
    [k \in 1..Len(Catalog) |->
        ProvidedAsset(IF Catalog[k].symbol = WETH THEN Priced(Catalog[k], wethPrice)
                      ELSE Catalog[k],
                      marketRefPrice)]

OnChainPosition(assets) ==
    Position(<<ReserveItem(assets[FindAsset(assets, WETH)], Num(10), TRUE),
               ReserveItem(assets[FindAsset(assets, sDAI)], Num(1000), FALSE)>>,
             <<BorrowItem(assets[FindAsset(assets, USDC)], Num(90))>>, 0)

Delivered(assets, marketRefPrice) ==
    [fetchedData |->
        updateDerivedHealthFactorData(OnChainPosition(assets), marketRefPrice),
     workingData |->
        updateDerivedHealthFactorData(OnChainPosition(assets), marketRefPrice),
     marketReferenceCurrencyPriceInUSD |-> marketRefPrice,
     availableAssets |-> assets]

getAaveData ==
    { Delivered(FreshCatalog(Num(10), Num(1)), Num(1)),
      Delivered(FreshCatalog(Num(11), Num(1)), Num(1)),
      Delivered(FreshCatalog(Num(10), Num(2)), Num(2)) }

\* `Math.abs(a - b) < 1e-6` on the difference x of two finite numbers
WithinTolerance(x) ==
    Abs(x[1]) <= 2147 /\ Abs(x[1]) * 1000000 < x[2]

\* hfMatch
hfMatch(existingWorking, existingFetched) ==
    \/ existingWorking.healthFactor = existingFetched.healthFactor
    \/ /\ existingWorking.healthFactor # Null
       /\ existingFetched.healthFactor # Null
       /\ IsFinite(existingWorking.healthFactor)
       /\ IsFinite(existingFetched.healthFactor)
       /\ WithinTolerance(Sub(existingWorking.healthFactor,
                              existingFetched.healthFactor))

\* `hfMatch && reservesLenMatch && borrowsLenMatch`: no user simulation
NoUserSimulation(existingWorking, existingFetched) ==
    /\ hfMatch(existingWorking, existingFetched)
    /\ Len(existingWorking.userReservesData) = Len(existingFetched.userReservesData)
    /\ Len(existingWorking.userBorrowsData) = Len(existingFetched.userBorrowsData)

\* `item.asset = { ...freshAsset, isNewlyAddedBySimUser: item.asset.isNewlyAddedBySimUser }`
WithFreshAsset(item, assets, k) ==
    IF k = 0 THEN item
    ELSE [item EXCEPT !.asset =
            [assets[k] EXCEPT !.isNewlyAddedBySimUser = item.asset.isNewlyAddedBySimUser]]

FreshItems(items, assets) ==
    [k \in 1..Len(items) |->
        WithFreshAsset(items[k], assets, FindAsset(assets, items[k].asset.symbol))]

\* workingCopy once both forEach have run
WorkingCopy(existingWorking, assets) ==
    [JsonClone(existingWorking) EXCEPT
        !.userReservesData = FreshItems(@, assets),
        !.userBorrowsData = FreshItems(@, assets)]

\* the refresh effect's runRefresh: at activation and on every tick of the
\* interval while isRefreshActive is true
runRefresh ==
    /\ isRefreshActive
    /\ solver.pc = "idle"
    /\ inFlight < MaxInFlight
    /\ inFlight' = inFlight + 1
    /\ UNCHANGED <<workingData, marketReferenceCurrencyPriceInUSD, passes, locals, solver,
                   fee, availableAssets, call, operations, fetchedData, isRefreshActive>>

\* applyRefreshPreservingWorkingData(market.id, hfData) when a fetch resolves
applyRefreshPreservingWorkingData(freshHfData) ==
    /\ inFlight > 0
    /\ solver.pc = "idle"
    /\ inFlight' = inFlight - 1
    /\ fetchedData' = freshHfData.fetchedData
    /\ marketReferenceCurrencyPriceInUSD' = freshHfData.marketReferenceCurrencyPriceInUSD
    /\ availableAssets' = freshHfData.availableAssets
    /\ call' = [op |-> "applyRefreshPreservingWorkingData", args |-> << >>,
                threw |-> FALSE, result |-> << >>]
    /\ IF NoUserSimulation(workingData, fetchedData)
       THEN /\ workingData' = freshHfData.workingData
            /\ UNCHANGED solver
       ELSE /\ workingData' =
                 updateDerivedHealthFactorData(
                     WorkingCopy(workingData, freshHfData.availableAssets),
                     freshHfData.marketReferenceCurrencyPriceInUSD)
            /\ solver' = ScenarioEntered(workingData')
    /\ passes' = 0
    /\ locals' = NoLocals
    /\ UNCHANGED <<fee, operations, isRefreshActive>>

\* the liquidation scenario of the refreshed working position is stored
\* with it
StoreRefreshedScenario ==
    /\ solver.pc = "done"
    /\ call.op = "applyRefreshPreservingWorkingData"
    /\ call' = [call EXCEPT !.result = solver.result]
    /\ solver' = IdleSolver
    /\ UNCHANGED <<workingData, marketReferenceCurrencyPriceInUSD, passes, locals, fee,
                   availableAssets, operations, fetchedData, isRefreshActive, inFlight>>

\* the fetch rejects: only fetchError is written
RefreshFailed ==
    /\ inFlight > 0
    /\ solver.pc = "idle"
    /\ inFlight' = inFlight - 1
    /\ Thrown("getAaveData", << >>)
    /\ UNCHANGED <<workingData, marketReferenceCurrencyPriceInUSD, passes, locals, solver,
                   fee, availableAssets, operations, fetchedData, isRefreshActive>>

\* setRefreshState: `store.isRefreshActive.set((p) => !p)`
setRefreshState ==
    /\ solver.pc = "idle"
    /\ isRefreshActive' = ~isRefreshActive
    /\ UNCHANGED <<workingData, marketReferenceCurrencyPriceInUSD, passes, locals, solver,
                   fee, availableAssets, call, operations, fetchedData, inFlight>>

RefreshReserveQuantityInputs == {<<sDAI, Num(500)>>, <<WETH, Num(12)>>}
RefreshBorrowQuantityInputs == {<<USDC, Num(80)>>}
RefreshPriceInputs == {<<WETH, Num(12)>>}

InitRefresh ==
    /\ \E freshHfData \in getAaveData :
          /\ fetchedData = freshHfData.fetchedData
          /\ workingData = freshHfData.workingData
          /\ marketReferenceCurrencyPriceInUSD =
                freshHfData.marketReferenceCurrencyPriceInUSD
          /\ availableAssets = freshHfData.availableAssets
    /\ passes = 0
    /\ locals = NoLocals
    /\ solver = IdleSolver
    /\ fee = NoFee
    /\ call = NoCall
    /\ operations = 0
    /\ isRefreshActive = TRUE
    /\ inFlight = 0

NextRefresh ==
    \/ \E inp \in RefreshReserveQuantityInputs : SimSetReserveAssetQuantity(inp[1], inp[2])
    \/ \E inp \in RefreshBorrowQuantityInputs : SimSetBorrowedAssetQuantity(inp[1], inp[2])
    \/ \E inp \in RefreshPriceInputs : SimSetAssetPriceInUSD(inp[1], inp[2])
    \/ resetCurrentMarketChanges
    \/ SimApplyLiquidationScenario
    \/ ExpandSweep
    \/ EnterContraction
    \/ ContractSweep
    \/ ReturnScenario
    \/ applyLiquidationScenario
    \/ setRefreshState
    \/ runRefresh
    \/ \E freshHfData \in getAaveData : applyRefreshPreservingWorkingData(freshHfData)
    \/ StoreRefreshedScenario
    \/ RefreshFailed

SpecRefresh == InitRefresh /\ [][NextRefresh]_vars

---------------------------------------------------------------------------
\* The refresh against the simulation in progress.

\* the step is applyRefreshPreservingWorkingData
RefreshCompletes ==
    /\ inFlight' = inFlight - 1
    /\ call'.op = "applyRefreshPreservingWorkingData"
    /\ call'.result = << >>

\* the baseline's line item of the symbol, << >> for none
BaselineItem(items, symbol) ==
    IF FindIndex(items, symbol) = 0 THEN << >>
    ELSE <<items[FindIndex(items, symbol)]>>

\* the user has set the balance of the reserve or the price of its asset
ReserveSetByUser(item, baseline) ==
    \/ baseline = << >>
    \/ /\ baseline # << >>
       /\ \/ baseline[1].underlyingBalance # item.underlyingBalance
          \/ baseline[1].asset.priceInUSD # item.asset.priceInUSD

BorrowSetByUser(item, baseline) ==
    \/ baseline = << >>
    \/ /\ baseline # << >>
       /\ \/ baseline[1].totalBorrows # item.totalBorrows
          \/ baseline[1].asset.priceInUSD # item.asset.priceInUSD

\* the working position differs from the baseline in a quantity or a price
DivergedFromBaseline(working, fetched) ==
    \/ \E k \in 1..Len(working.userReservesData) :
          ReserveSetByUser(working.userReservesData[k],
                           BaselineItem(fetched.userReservesData,
                                        working.userReservesData[k].asset.symbol))
    \/ \E k \in 1..Len(working.userBorrowsData) :
          BorrowSetByUser(working.userBorrowsData[k],
                          BaselineItem(fetched.userBorrowsData,
                                       working.userBorrowsData[k].asset.symbol))

\* what the user has set is in `after` as it was in `before`
UserSetKept(before, after, fetched) ==
    /\ Len(after.userReservesData) = Len(before.userReservesData)
    /\ Len(after.userBorrowsData) = Len(before.userBorrowsData)
    /\ \A k \in 1..Len(before.userReservesData) :
          ReserveSetByUser(before.userReservesData[k],
                           BaselineItem(fetched.userReservesData,
                                        before.userReservesData[k].asset.symbol))
          => /\ after.userReservesData[k].underlyingBalance
                  = before.userReservesData[k].underlyingBalance
             /\ after.userReservesData[k].asset.priceInUSD
                  = before.userReservesData[k].asset.priceInUSD
    /\ \A k \in 1..Len(before.userBorrowsData) :
          BorrowSetByUser(before.userBorrowsData[k],
                          BaselineItem(fetched.userBorrowsData,
                                       before.userBorrowsData[k].asset.symbol))
          => /\ after.userBorrowsData[k].totalBorrows
                  = before.userBorrowsData[k].totalBorrows
             /\ after.userBorrowsData[k].asset.priceInUSD
                  = before.userBorrowsData[k].asset.priceInUSD

\* C24: when a refresh completes on a working position that differs from
\* the baseline in a quantity or a price the user has set, the refresh
\* leaves those quantities and prices in the working position as they were.
C24_RefreshKeepsSimulation ==
    [][RefreshCompletes /\ DivergedFromBaseline(workingData, fetchedData)
       => UserSetKept(workingData, workingData', fetchedData)]_vars

\* C30: once isRefreshActive is false no refresh completion writes
\* workingData or fetchedData, a refresh whose fetch was started before the
\* deactivation included.
C30_NoRefreshWhileInactive ==
    [][RefreshCompletes /\ ~isRefreshActive
       => workingData' = workingData /\ fetchedData' = fetchedData]_vars

=============================================================================
